---------------------------- MODULE Spec2Model ----------------------------
(***************************************************************************)
(* A model of avrotize's JSON Schema -> Avro schema converter              *)
(* (src/avrotize/jsonstoavro.py, class JsonToAvroConverter).               *)
(*                                                                         *)
(* Python values are modelled as tagged records, so that values of         *)
(* different Python types can be compared:                                 *)
(*    str   [k |-> "s", v |-> sequence of one-character strings]           *)
(*    list  [k |-> "l", v |-> sequence of values]                          *)
(*    dict  [k |-> "d", v |-> sequence of <<key, value>> in insertion      *)
(*           order, id |-> the place of the object in the input document]  *)
(*    bool  [k |-> "b", v |-> BOOLEAN]    int [k |-> "i", v |-> Int]       *)
(*    None  [k |-> "n", v |-> FALSE]                                       *)
(* Strings are character sequences because the code works on characters    *)
(* (re.sub in avro_name, str.split, the substring test `'null' in t`).     *)
(* A dict of the input document carries the JSON path it was loaded at as  *)
(* its identity (id): the code mutates nodes of the document in place and  *)
(* reaches the same node again through `$ref`, so a node is always read    *)
(* from the current document by its identity.  Dicts built by the          *)
(* converter (copies, Avro types) have the identity NoId.                  *)
(***************************************************************************)
EXTENDS Integers, Sequences, FiniteSets, TLC

(***************************************************************************)
(* String literals of the code.                                            *)
(***************************************************************************)
s_type == <<"t", "y", "p", "e">>
s_properties == <<"p", "r", "o", "p", "e", "r", "t", "i", "e", "s">>
s_required == <<"r", "e", "q", "u", "i", "r", "e", "d">>
s_ref == <<"$", "r", "e", "f">>
s_allOf == <<"a", "l", "l", "O", "f">>
s_oneOf == <<"o", "n", "e", "O", "f">>
s_anyOf == <<"a", "n", "y", "O", "f">>
s_enum == <<"e", "n", "u", "m">>
s_format == <<"f", "o", "r", "m", "a", "t">>
s_description == <<"d", "e", "s", "c", "r", "i", "p", "t", "i", "o", "n">>
s_title == <<"t", "i", "t", "l", "e">>
s_const == <<"c", "o", "n", "s", "t">>
s_items == <<"i", "t", "e", "m", "s">>
s_additionalProperties == <<"a", "d", "d", "i", "t", "i", "o", "n", "a", "l", "P", "r", "o", "p", "e", "r", "t", "i", "e", "s">>
s_patternProperties == <<"p", "a", "t", "t", "e", "r", "n", "P", "r", "o", "p", "e", "r", "t", "i", "e", "s">>
s_if == <<"i", "f">>
s_then == <<"t", "h", "e", "n">>
s_else == <<"e", "l", "s", "e">>
s_dependentSchemas == <<"d", "e", "p", "e", "n", "d", "e", "n", "t", "S", "c", "h", "e", "m", "a", "s">>
s_dependentRequired == <<"d", "e", "p", "e", "n", "d", "e", "n", "t", "R", "e", "q", "u", "i", "r", "e", "d">>
s_definitions == <<"d", "e", "f", "i", "n", "i", "t", "i", "o", "n", "s">>
s_swagger == <<"s", "w", "a", "g", "g", "e", "r">>
s_name == <<"n", "a", "m", "e">>
s_namespace == <<"n", "a", "m", "e", "s", "p", "a", "c", "e">>
s_fields == <<"f", "i", "e", "l", "d", "s">>
s_symbols == <<"s", "y", "m", "b", "o", "l", "s">>
s_values == <<"v", "a", "l", "u", "e", "s">>
s_logicalType == <<"l", "o", "g", "i", "c", "a", "l", "T", "y", "p", "e">>
s_size == <<"s", "i", "z", "e">>
s_doc == <<"d", "o", "c">>
s_dependencies == <<"d", "e", "p", "e", "n", "d", "e", "n", "c", "i", "e", "s">>
s_object == <<"o", "b", "j", "e", "c", "t">>
s_array == <<"a", "r", "r", "a", "y">>
s_string == <<"s", "t", "r", "i", "n", "g">>
s_integer == <<"i", "n", "t", "e", "g", "e", "r">>
s_number == <<"n", "u", "m", "b", "e", "r">>
s_boolean == <<"b", "o", "o", "l", "e", "a", "n">>
s_int == <<"i", "n", "t">>
s_float == <<"f", "l", "o", "a", "t">>
s_null == <<"n", "u", "l", "l">>
s_long == <<"l", "o", "n", "g">>
s_double == <<"d", "o", "u", "b", "l", "e">>
s_bytes == <<"b", "y", "t", "e", "s">>
s_record == <<"r", "e", "c", "o", "r", "d">>
s_map == <<"m", "a", "p">>
s_fixed == <<"f", "i", "x", "e", "d">>
s_date_time == <<"d", "a", "t", "e", "-", "t", "i", "m", "e">>
s_date == <<"d", "a", "t", "e">>
s_time == <<"t", "i", "m", "e">>
s_duration == <<"d", "u", "r", "a", "t", "i", "o", "n">>
s_uuid == <<"u", "u", "i", "d">>
s_time_millis == <<"t", "i", "m", "e", "-", "m", "i", "l", "l", "i", "s">>
s_value == <<"v", "a", "l", "u", "e">>
s_extensions == <<"e", "x", "t", "e", "n", "s", "i", "o", "n", "s">>
s_suffix_enum == <<"_", "e", "n", "u", "m">>
s_suffix_ref == <<"_", "r", "e", "f">>
s_suffix_union == <<"_", "u", "n", "i", "o", "n">>
s_suffix_type == <<"_", "t", "y", "p", "e">>
s_suffix_value == <<"_", "v", "a", "l", "u", "e">>
s_suffix_extensions == <<"_", "e", "x", "t", "e", "n", "s", "i", "o", "n", "s">>
s_example_com == <<"e", "x", "a", "m", "p", "l", "e", ".", "c", "o", "m">>
s_empty == << >>
s_dot == <<".">>
s_underscore == <<"_">>
s_slash == <<"/">>
s_hash == <<"#">>

(***************************************************************************)
(* Values.                                                                 *)
(***************************************************************************)
NoId == << <<"*">> >>
S(cs) == [k |-> "s", v |-> cs]
L(xs) == [k |-> "l", v |-> xs]
D(ps) == [k |-> "d", v |-> ps, id |-> NoId]
B(b) == [k |-> "b", v |-> b]
I(n) == [k |-> "i", v |-> n]
None == [k |-> "n", v |-> FALSE]
EmptyDict == D(<< >>)

IsStr(x) == x.k = "s"
IsList(x) == x.k = "l"
IsDict(x) == x.k = "d"
IsNone(x) == x.k = "n"

\* Python truthiness: bool(x)
Truthy(x) ==
    CASE x.k = "s" -> x.v # << >>
      [] x.k = "l" -> x.v # << >>
      [] x.k = "d" -> x.v # << >>
      [] x.k = "b" -> x.v
      [] x.k = "i" -> x.v # 0
      [] OTHER -> FALSE

\* dict operations; a dict keeps the insertion order of its keys
Has(d, key) == \E i \in 1..Len(d.v) : d.v[i][1] = key
Get(d, key) == d.v[CHOOSE i \in 1..Len(d.v) : d.v[i][1] = key][2]
GetOr(d, key, default) == IF Has(d, key) THEN Get(d, key) ELSE default
Put(d, key, val) ==
    IF Has(d, key)
    THEN [d EXCEPT !.v = [i \in 1..Len(d.v) |->
                             IF d.v[i][1] = key THEN <<key, val>> ELSE d.v[i]]]
    ELSE [d EXCEPT !.v = Append(d.v, <<key, val>>)]
Del(d, key) == [d EXCEPT !.v = SelectSeq(d.v, LAMBDA p : p[1] # key)]

RECURSIVE UpdateFrom(_, _, _)
UpdateFrom(d, ps, i) ==
    IF i > Len(ps) THEN d ELSE UpdateFrom(Put(d, ps[i][1], ps[i][2]), ps, i + 1)
\* d.update(e)
Update(d, e) == UpdateFrom(d, e.v, 1)
\* d.copy(): a new dict object with the same children
ShallowCopy(d) == [d EXCEPT !.id = NoId]

\* copy.deepcopy(x): new objects all the way down
RECURSIVE DeepCopy(_)
DeepCopy(x) ==
    CASE x.k = "d" -> D([i \in 1..Len(x.v) |-> <<x.v[i][1], DeepCopy(x.v[i][2])>>])
      [] x.k = "l" -> L([i \in 1..Len(x.v) |-> DeepCopy(x.v[i])])
      [] OTHER -> x

\* Python's == on values: dicts compare by content, whatever the key order
RECURSIVE JEq(_, _)
JEq(x, y) ==
    IF x.k # y.k THEN FALSE
    ELSE CASE x.k = "d" ->
                /\ Len(x.v) = Len(y.v)
                /\ \A i \in 1..Len(x.v) :
                      /\ Has(y, x.v[i][1])
                      /\ JEq(x.v[i][2], Get(y, x.v[i][1]))
           [] x.k = "l" ->
                /\ Len(x.v) = Len(y.v)
                /\ \A i \in 1..Len(x.v) : JEq(x.v[i], y.v[i])
           [] OTHER -> x.v = y.v

\* x in xs, for a Python list xs
InList(x, xs) == \E i \in 1..Len(xs.v) : JEq(xs.v[i], x)

\* the concatenation of a sequence of strings, with a separator: sep.join(parts)
RECURSIVE Join(_, _)
Join(parts, sep) ==
    IF parts = << >> THEN << >>
    ELSE IF Len(parts) = 1 THEN parts[1]
    ELSE parts[1] \o sep \o Join(Tail(parts), sep)

\* cs.split(sep) for a one-character separator
RECURSIVE Split(_, _)
Split(cs, sep) ==
    IF \A i \in 1..Len(cs) : cs[i] # sep THEN << cs >>
    ELSE LET i == CHOOSE j \in 1..Len(cs) :
                      cs[j] = sep /\ \A m \in 1..(j - 1) : cs[m] # sep
         IN  << SubSeq(cs, 1, i - 1) >> \o Split(SubSeq(cs, i + 1, Len(cs)), sep)

\* `sub in cs` for two Python strings
Contains(cs, sub) ==
    \E i \in 1..(Len(cs) - Len(sub) + 1) : SubSeq(cs, i, i + Len(sub) - 1) = sub

(***************************************************************************)
(* State.  One JsonToAvroConverter and one call of jsons_to_avro on it.    *)
(*   input           the JSON Schema document as handed to jsons_to_avro   *)
(*   doc             that document now (the converter mutates it in place) *)
(*   root_namespace  self.root_namespace                                   *)
(*   imported_types  self.imported_types: $ref string -> name or type      *)
(*   avro_schema     the list of emitted named types                       *)
(*   record_stack    names of the records being built                      *)
(*   queue           the definitions jsons_to_avro still has to process    *)
(*   pc              where jsons_to_avro is: "run", "returned", "raised";  *)
(*                   for a call of one of the pure functions: "call",      *)
(*                   "done"                                                *)
(*   result          what the call returned, or the exception it raised    *)
(*   emitted         history: which schema each registry entry was built   *)
(*                   from, and by which of the two registration points     *)
(*   args            the arguments of a call of one of the pure functions  *)
(*   hashseed        the order in which list(set(...)) yields its elements *)
(*                   (it depends on the interpreter's string hashing)      *)
(*   content         what fetch_content returned for the schema file       *)
(*   avro_file       what was written to avro_schema_path, None if nothing *)
(*   resolutions     history: the references that were looked up, entered  *)
(*                   and left, in their order                              *)
(***************************************************************************)
VARIABLES input, doc, root_namespace, imported_types, avro_schema,
          record_stack, queue, pc, result, emitted, args, hashseed,
          content, avro_file, resolutions

vars == <<input, doc, root_namespace, imported_types, avro_schema,
          record_stack, queue, pc, result, emitted, args, hashseed,
          content, avro_file,
          resolutions>>

(***************************************************************************)
(* avrotize.common (not part of the sources at hand).                      *)
(***************************************************************************)
NameChars ==
    {"a", "b", "c", "d", "e", "f", "g", "h", "i", "j", "k", "l", "m",
     "n", "o", "p", "q", "r", "s", "t", "u", "v", "w", "x", "y", "z",
     "A", "B", "C", "D", "E", "F", "G", "H", "I", "J", "K", "L", "M",
     "N", "O", "P", "Q", "R", "S", "T", "U", "V", "W", "X", "Y", "Z",
     "0", "1", "2", "3", "4", "5", "6", "7", "8", "9", "_"}
Digits == {"0", "1", "2", "3", "4", "5", "6", "7", "8", "9"}

\* re.sub(r'[^a-zA-Z0-9_]', '_', cs)
Sanitize(cs) == [i \in 1..Len(cs) |-> IF cs[i] \in NameChars THEN cs[i] ELSE "_"]

\* avro_name(name): every character that is not legal in an Avro name becomes
\* "_", and a name that starts with a digit gets a leading "_"
avro_name(cs) ==
    LET val == Sanitize(cs)
    IN  IF val # << >> /\ val[1] \in Digits THEN <<"_">> \o val ELSE val

\* generic_type(): the placeholder for "any value", a union that starts with null
generic_type ==
    L(<< S(s_null), S(s_boolean), S(s_int), S(s_long), S(s_float),
         S(s_double), S(s_bytes), S(s_string) >>)

(***************************************************************************)
(* is_empty_type                                                           *)
(***************************************************************************)
RECURSIVE is_empty_type(_)
is_empty_type(avro_type) ==
    CASE avro_type.k = "s" -> avro_type.v = << >>
      [] avro_type.k = "l" ->
            \A i \in 1..Len(avro_type.v) : is_empty_type(avro_type.v[i])
      [] avro_type.k = "d" -> ~Has(avro_type, s_type)
      [] OTHER -> FALSE

\* list(set(xs)): the members of xs once each; the order is the interpreter's
RECURSIVE Dedupe(_)
Dedupe(xs) ==
    IF xs = << >> THEN << >>
    ELSE LET init == Dedupe(SubSeq(xs, 1, Len(xs) - 1))
             last == xs[Len(xs)]
         IN  IF \E i \in 1..Len(init) : init[i] = last THEN init
             ELSE Append(init, last)
Reverse(xs) == [i \in 1..Len(xs) |-> xs[Len(xs) + 1 - i]]
ListOfSet(xs) == IF hashseed = 0 THEN Dedupe(xs) ELSE Reverse(Dedupe(xs))

(***************************************************************************)
(* json_schema_primitive_to_avro_type                                      *)
(* The functions return [v |-> value, deps |-> the caller's dependency     *)
(* list after the call, err |-> the exception raised, "" for none].        *)
(***************************************************************************)
Unbound == [k |-> "u", v |-> FALSE]

\* set(x) raises TypeError for what cannot be iterated and for members that
\* cannot be hashed
SetOk(x) ==
    \/ IsStr(x) \/ IsDict(x)
    \/ IsList(x) /\ \A i \in 1..Len(x.v) : x.v[i].k \notin {"d", "l"}
\* the members of set(x): the items of a list, the keys of a dict, the
\* characters of a string
Elements(x) ==
    CASE x.k = "l" -> x.v
      [] x.k = "d" -> [i \in 1..Len(x.v) |-> S(x.v[i][1])]
      [] OTHER -> [i \in 1..Len(x.v) |-> S(<< x.v[i] >>)]

\* the sanitized members with their duplicates
SymbolsWithDuplicates(enum) ==
    LET strs == SelectSeq(Elements(enum), LAMBDA e : IsStr(e) /\ e.v # << >>)
    IN  [i \in 1..Len(strs) |-> S(avro_name(strs[i].v))]

\* lines 203-205: the members that are non-empty strings, sanitized, once each
Symbols(enum) ==
    LET strs == SelectSeq(Elements(enum), LAMBDA e : IsStr(e) /\ e.v # << >>)
    IN  Dedupe([i \in 1..Len(strs) |-> S(avro_name(strs[i].v))])

\* the table with double for number
PrimitiveTableDouble(json_primitive) ==
    CASE json_primitive = S(s_string) -> S(s_string)
      [] json_primitive = S(s_integer) -> S(s_int)
      [] json_primitive = S(s_number) -> S(s_double)
      [] json_primitive = S(s_boolean) -> S(s_boolean)
      [] OTHER -> Unbound

PrimitiveTable(json_primitive) ==
    CASE json_primitive = S(s_string) -> S(s_string)
      [] json_primitive = S(s_integer) -> S(s_int)
      [] json_primitive = S(s_number) -> S(s_float)
      [] json_primitive = S(s_boolean) -> S(s_boolean)
      [] OTHER -> Unbound

FormatTable(format, avro_primitive) ==
    IF format.v \in {s_date_time, s_date}
    THEN D(<< <<s_type, S(s_int)>>, <<s_logicalType, S(s_date)>> >>)
    ELSE IF Contains(s_time, format.v)
    THEN D(<< <<s_type, S(s_int)>>, <<s_logicalType, S(s_time_millis)>> >>)
    ELSE IF Contains(s_duration, format.v)
    THEN D(<< <<s_type, S(s_fixed)>>, <<s_size, I(12)>>,
              <<s_logicalType, S(s_duration)>> >>)
    ELSE IF Contains(s_uuid, format.v)
    THEN D(<< <<s_type, S(s_string)>>, <<s_logicalType, S(s_uuid)>> >>)
    ELSE avro_primitive

RECURSIVE json_schema_primitive_to_avro_type(_, _, _, _, _)
RECURSIVE PrimitiveUnion(_, _, _, _, _)

\* lines 170-176: the union of the items of a list of type names
PrimitiveUnion(items, i, field_name, dependencies, union) ==
    LET item == items[i]
        next(r) == IF r.err # "" THEN r
                   ELSE PrimitiveUnion(items, i + 1, field_name, r.deps,
                                       Append(union, r.v))
    IN  IF i > Len(items) THEN [v |-> L(union), deps |-> dependencies, err |-> ""]
        ELSE next(json_schema_primitive_to_avro_type(
                      item,
                      IF IsDict(item) THEN GetOr(item, s_format, None) ELSE None,
                      IF IsDict(item) THEN GetOr(item, s_enum, None) ELSE None,
                      field_name, dependencies))

\* lines 177-210: one type name, with its format and its enum
Primitive(jp, format, enum, field_name, dependencies) ==
    LET known == PrimitiveTable(jp) # Unbound
        passes == ~known /\ ~Truthy(enum) /\ ~Truthy(format)
        out(p, deps) ==
            IF p = Unbound THEN [v |-> None, deps |-> deps, err |-> "UnboundLocalError"]
            ELSE [v |-> p, deps |-> deps, err |-> ""]
        enumerated(p, deps, symbols) ==
            IF ~Truthy(enum) THEN out(p, deps)
            ELSE IF enum.k \notin {"l", "d", "s"} \/ (symbols # << >> /\ ~IsStr(field_name))
            THEN [v |-> None, deps |-> deps, err |-> "TypeError"]
            ELSE IF Len(symbols) > 0
            THEN out(D(<< <<s_type, S(s_enum)>>,
                          <<s_symbols, L(symbols)>>,
                          <<s_name, S(avro_name(field_name.v \o s_suffix_enum))>> >>),
                     deps)
            ELSE out(S(s_string), deps)
        formatted(p, deps) ==
            IF Truthy(format) /\ ~IsStr(format)
            THEN [v |-> None, deps |-> deps, err |-> "TypeError"]
            ELSE enumerated(IF Truthy(format) THEN FormatTable(format, p) ELSE p,
                            deps, Symbols(enum))
    IN  formatted(IF known THEN PrimitiveTable(jp) ELSE IF passes THEN jp ELSE Unbound,
                  IF passes /\ IsStr(jp) THEN Append(dependencies, jp)
                  ELSE dependencies)

json_schema_primitive_to_avro_type(json_primitive, format, enum, field_name,
                                   dependencies) ==
    IF IsList(json_primitive) /\ ~Truthy(enum)
    THEN PrimitiveUnion(json_primitive.v, 1, field_name, dependencies, << >>)
    ELSE Primitive(IF IsList(json_primitive) THEN S(s_string) ELSE json_primitive,
                   format, enum, field_name, dependencies)

(***************************************************************************)
(* merge_avro_schemas                                                      *)
(***************************************************************************)
\* lines 88-96: one field of the schema merged into the fields so far
MergeField(fields, field) ==
    LET typed(f) == IF ~JEq(Get(f, s_type), Get(field, s_type))
                    THEN Put(f, s_type, L(<< Get(field, s_type), Get(f, s_type) >>))
                    ELSE f
        documented(f) == IF Has(field, s_doc) /\ ~Has(f, s_doc)
                         THEN Put(f, s_doc, Get(field, s_doc))
                         ELSE f
        mergedAt(j) == [fields EXCEPT ![j] = documented(typed(fields[j]))]
        name == GetOr(field, s_name, None)
    IN  IF ~InList(field, L(fields)) THEN Append(fields, field)
        ELSE mergedAt(CHOOSE i \in 1..Len(fields) :
                          /\ JEq(GetOr(fields[i], s_name, None), name)
                          /\ \A m \in 1..(i - 1) :
                                ~JEq(GetOr(fields[m], s_name, None), name))

RECURSIVE MergeFields(_, _, _)
MergeFields(fields, new, i) ==
    IF i > Len(new) THEN fields
    ELSE MergeFields(MergeField(fields, new[i]), new, i + 1)

\* lines 82-98: both the schema and the merged schema have a type
MergeTyped(merged, schema, type_name) ==
    LET types(m) ==
            IF ~JEq(Get(schema, s_type), Get(m, s_type))
            THEN Put(m, s_type, L(<< Get(schema, s_type), Get(m, s_type) >>))
            ELSE m
        named(m, n1, n2) ==
            IF Truthy(type_name) THEN [v |-> m, err |-> ""]
            ELSE IF ~(IsStr(n1) /\ IsStr(n2)) THEN [v |-> merged, err |-> "TypeError"]
            ELSE [v |-> Put(m, s_name, S(avro_name(n1.v \o n2.v))), err |-> ""]
        names(m) == named(m, GetOr(m, s_name, S(s_empty)),
                          GetOr(schema, s_name, S(s_empty)))
        fields(r) ==
            IF r.err # "" \/ ~Has(schema, s_fields) THEN r
            ELSE IF Has(r.v, s_fields)
            THEN [v |-> Put(r.v, s_fields,
                            L(MergeFields(Get(r.v, s_fields).v,
                                          Get(schema, s_fields).v, 1))),
                  err |-> ""]
            ELSE [v |-> Put(r.v, s_fields, Get(schema, s_fields)), err |-> ""]
    IN  fields(names(types(merged)))

\* lines 60-98: the body of the loop over the schemas
MergeOne(merged0, schema, avro_schemas, type_name) ==
    LET named(merged, hits) ==
            IF hits # {}
            THEN [v |-> Update(merged,
                               avro_schemas[CHOOSE i \in hits : \A j \in hits : i <= j]),
                  err |-> ""]
            ELSE [v |-> Put(merged, s_type, schema), err |-> ""]
        listed(merged, t) ==
            IF IsStr(t) THEN [v |-> Put(merged, s_type, L(<< t >> \o schema.v)),
                              err |-> ""]
            ELSE IF ~IsList(t) THEN [v |-> merged, err |-> "AttributeError"]
            ELSE [v |-> Put(merged, s_type, L(t.v \o schema.v)), err |-> ""]
        into(merged) ==
            IF (IsList(schema) \/ IsDict(schema)) /\ schema.v = << >>
            THEN [v |-> merged, err |-> ""]
            ELSE IF IsStr(schema)
            THEN named(merged,
                       { i \in 1..Len(avro_schemas) :
                            JEq(GetOr(avro_schemas[i], s_name, None), schema) })
            ELSE IF IsList(schema)
            THEN IF ~Has(merged, s_type)
                 THEN [v |-> Put(merged, s_type, schema), err |-> ""]
                 ELSE listed(merged, Get(merged, s_type))
            ELSE IF ~IsDict(schema)
            THEN [v |-> merged, err |-> "TypeError"]
            ELSE IF ~Has(schema, s_type) \/ ~Has(merged, s_type)
            THEN [v |-> Update(merged, schema), err |-> ""]
            ELSE MergeTyped(merged, schema, type_name)
    IN  into(IF IsDict(schema) /\ Has(schema, s_dependencies)
             THEN Put(merged0, s_dependencies,
                      L(GetOr(merged0, s_dependencies, L(<< >>)).v
                        \o Get(schema, s_dependencies).v))
             ELSE merged0)

RECURSIVE MergeAvroLoop(_, _, _, _, _)
MergeAvroLoop(merged, schemas, i, avro_schemas, type_name) ==
    LET next(r) == IF r.err # "" THEN r
                   ELSE MergeAvroLoop(r.v, schemas, i + 1, avro_schemas, type_name)
    IN  IF i > Len(schemas) THEN [v |-> merged, err |-> ""]
        ELSE next(MergeOne(merged, schemas[i], avro_schemas, type_name))

\* schemas: a sequence of values; avro_schemas: the registry; type_name: str or None
merge_avro_schemas(schemas, avro_schemas, type_name) ==
    IF Len(schemas) = 1 /\ IsStr(schemas[1]) THEN [v |-> schemas[1], err |-> ""]
    ELSE MergeAvroLoop(IF Truthy(type_name) THEN D(<< <<s_name, type_name>> >>)
                       ELSE EmptyDict,
                       schemas, 1, avro_schemas, type_name)

(***************************************************************************)
(* merge_json_schemas                                                      *)
(***************************************************************************)
\* list(set(a).union(set(b)))
SetUnion(a, b) == L(ListOfSet(Elements(a) \o Elements(b)))
\* list(set(a).intersection(set(b)))
SetIntersection(a, b) ==
    L(ListOfSet(SelectSeq(Elements(a),
                          LAMBDA x : \E i \in 1..Len(Elements(b)) :
                                        Elements(b)[i] = x)))

RECURSIVE AppendMissing(_, _, _)
\* lines 119-121
AppendMissing(xs, items, i) ==
    IF i > Len(items) THEN xs
    ELSE AppendMissing(IF InList(items[i], L(xs)) THEN xs ELSE Append(xs, items[i]),
                       items, i + 1)

\* lines 109-126: one key of a schema that has no type, or whose type is the
\* first one seen
MergeKey(merged, key, val) ==
    LET combined(m, old) ==
            IF key = s_name
            THEN IF IsStr(old) /\ IsStr(val)
                 THEN [v |-> Put(m, key, S(old.v \o val.v)), err |-> ""]
                 ELSE IF IsList(old) /\ IsList(val)
                 THEN [v |-> Put(m, key, L(old.v \o val.v)), err |-> ""]
                 ELSE [v |-> merged, err |-> "TypeError"]
            ELSE IF IsDict(old)
            THEN IF IsDict(val)
                 \* dict.update returns None, and that is what is stored
                 THEN [v |-> Put(m, key, None), err |-> ""]
                 ELSE [v |-> merged, err |-> IF IsList(val) THEN "ValueError"
                                             ELSE "TypeError"]
            ELSE IF IsList(old) /\ IsList(val)
            THEN [v |-> Put(m, key, L(AppendMissing(old.v, val.v, 1))), err |-> ""]
            ELSE IF IsNone(old)
            THEN [v |-> Put(m, key, val), err |-> ""]
            ELSE [v |-> Put(m, key, L(<< old, DeepCopy(val) >>)), err |-> ""]
        collided(m) == combined(m, Get(m, key))
    IN  IF ~Has(merged, key) THEN [v |-> Put(merged, key, DeepCopy(val)), err |-> ""]
        ELSE IF key # s_required THEN collided(merged)
        ELSE IF ~(SetOk(Get(merged, key)) /\ SetOk(val))
        THEN [v |-> merged, err |-> "TypeError"]
        ELSE collided(Put(merged, key, SetUnion(Get(merged, key), val)))

RECURSIVE MergeKeys(_, _, _)
MergeKeys(merged, entries, i) ==
    LET next(r) == IF r.err # "" THEN r ELSE MergeKeys(r.v, entries, i + 1)
    IN  IF i > Len(entries) THEN [v |-> merged, err |-> ""]
        ELSE next(MergeKey(merged, entries[i][1], entries[i][2]))

\* lines 128-140: the schema and the merged schema both have a type
MergeTypedJson(merged, json_schema) ==
    LET fail(e) == [v |-> merged, err |-> e]
        ok(m) == [v |-> m, err |-> ""]
        both(m, key) == Has(json_schema, key) /\ Has(m, key)
        typed(m, t) ==
            IF JEq(Get(json_schema, s_type), t) THEN ok(m)
            ELSE IF IsStr(t)
            THEN ok(Put(m, s_type, L(<< t, Get(json_schema, s_type) >>)))
            ELSE IF ~IsList(t) THEN fail("AttributeError")
            ELSE ok(Put(m, s_type, L(Append(t.v, Get(json_schema, s_type)))))
        united(m, key) ==
            IF ~both(m, key) THEN ok(m)
            ELSE IF ~(SetOk(Get(m, key)) /\ SetOk(Get(json_schema, key)))
            THEN fail("TypeError")
            ELSE ok(Put(m, key, SetUnion(Get(m, key), Get(json_schema, key))))
        named(m, n1, n2) ==
            IF ~(IsStr(n1) /\ IsStr(n2)) THEN fail("TypeError")
            ELSE ok(Put(m, s_name, S(n1.v \o n2.v)))
        properties(m) ==
            IF ~both(m, s_properties) THEN ok(m)
            ELSE IF ~(IsDict(Get(m, s_properties))
                      /\ IsDict(Get(json_schema, s_properties)))
            THEN fail("AttributeError")
            ELSE ok(Put(m, s_properties,
                        Update(Get(m, s_properties), Get(json_schema, s_properties))))
        format(m) ==
            IF ~both(m, s_format) THEN ok(m)
            ELSE IF ~(IsStr(Get(m, s_format)) /\ IsStr(Get(json_schema, s_format)))
            THEN fail("TypeError")
            ELSE ok(Put(m, s_format,
                        S(Get(m, s_format).v \o Get(json_schema, s_format).v)))
        step5(r) == IF r.err # "" THEN r ELSE format(r.v)
        step4(r) == IF r.err # "" THEN r ELSE step5(united(r.v, s_enum))
        step3(r) == IF r.err # "" THEN r ELSE step4(properties(r.v))
        step2(r) == IF r.err # "" THEN r
                    ELSE step3(named(r.v, GetOr(r.v, s_name, S(s_empty)),
                                     GetOr(json_schema, s_name, S(s_empty))))
        step1(r) == IF r.err # "" THEN r ELSE step2(united(r.v, s_required))
    IN  step1(typed(merged, Get(merged, s_type)))

RECURSIVE MergeJsonLoop(_, _, _)
\* lines 106-140; a schema that is an empty string or an empty list has no
\* keys to merge, anything else that is no dict raises TypeError
MergeJsonLoop(merged, json_schemas, i) ==
    LET json_schema == json_schemas[i]
        next(r) == IF r.err # "" THEN r ELSE MergeJsonLoop(r.v, json_schemas, i + 1)
    IN  IF i > Len(json_schemas) THEN [v |-> merged, err |-> ""]
        ELSE next(IF (IsStr(json_schema) \/ IsList(json_schema))
                     /\ json_schema.v = << >>
                  THEN [v |-> merged, err |-> ""]
                  ELSE IF ~IsDict(json_schema) THEN [v |-> merged, err |-> "TypeError"]
                  ELSE IF ~Has(json_schema, s_type) \/ ~Has(merged, s_type)
                  THEN MergeKeys(merged, json_schema.v, 1)
                  ELSE MergeTypedJson(merged, json_schema))

RECURSIVE IntersectRequired(_, _, _)
\* lines 145-147, [v, err]
IntersectRequired(new_required, json_schemas, i) ==
    IF i > Len(json_schemas) THEN [v |-> new_required, err |-> ""]
    ELSE IF ~SetOk(new_required) THEN [v |-> new_required, err |-> "TypeError"]
    ELSE IF ~IsDict(json_schemas[i])
    THEN [v |-> new_required, err |-> "AttributeError"]
    ELSE IF ~SetOk(GetOr(json_schemas[i], s_required, L(<< >>)))
    THEN [v |-> new_required, err |-> "TypeError"]
    ELSE IntersectRequired(
             SetIntersection(new_required,
                             GetOr(json_schemas[i], s_required, L(<< >>))),
             json_schemas, i + 1)

\* lines 142-148
Intersected(r, required) ==
    IF required.err # "" THEN [v |-> r.v, err |-> required.err]
    ELSE [v |-> Put(r.v, s_required, required.v), err |-> ""]
\* json_schemas: a sequence of values
merge_json_schemas(json_schemas, intersect) ==
    LET merged(r) ==
            IF r.err # "" \/ ~intersect \/ ~Has(r.v, s_required) THEN r
            ELSE Intersected(r, IntersectRequired(Get(r.v, s_required),
                                                  json_schemas, 1))
    IN  merged(MergeJsonLoop(EmptyDict, json_schemas, 1))

(***************************************************************************)
(* The input document.  Every dict of the document gets the JSON path it   *)
(* is loaded at as its identity.  The converter changes nodes of the       *)
(* document in place (lines 304-315, 379, 467-468); a changed node is      *)
(* written back at its path, and a node is read from the document by its   *)
(* identity whenever the code reaches it, so that a change made through    *)
(* one reference is seen through every other.                              *)
(***************************************************************************)
DigitChar == <<"0", "1", "2", "3", "4", "5", "6", "7", "8", "9">>
\* str(n) for 0 <= n <= 9
StrOfNat(n) == << DigitChar[n + 1] >>

RECURSIVE WithIds(_, _)
WithIds(x, path) ==
    CASE x.k = "d" ->
            [k |-> "d",
             v |-> [i \in 1..Len(x.v) |->
                      <<x.v[i][1], WithIds(x.v[i][2], Append(path, x.v[i][1]))>>],
             id |-> path]
      [] x.k = "l" ->
            L([i \in 1..Len(x.v) |-> WithIds(x.v[i], Append(path, StrOfNat(i - 1)))])
      [] OTHER -> x

\* one step of a JSON pointer: a key of a dict or an index of a list
HasChild(x, part) ==
    \/ IsDict(x) /\ Has(x, part)
    \/ IsList(x) /\ \E i \in 1..Len(x.v) : StrOfNat(i - 1) = part
ChildOf(x, part) ==
    IF IsDict(x) THEN Get(x, part)
    ELSE x.v[CHOOSE i \in 1..Len(x.v) : StrOfNat(i - 1) = part]

RECURSIVE HasPath(_, _)
HasPath(x, path) ==
    IF path = << >> THEN TRUE
    ELSE HasChild(x, path[1]) /\ HasPath(ChildOf(x, path[1]), Tail(path))
RECURSIVE AtPath(_, _)
AtPath(x, path) ==
    IF path = << >> THEN x ELSE AtPath(ChildOf(x, path[1]), Tail(path))
RECURSIVE SetPath(_, _, _)
SetPath(x, path, new) ==
    IF path = << >> THEN new
    ELSE IF IsDict(x)
    THEN Put(x, path[1], SetPath(Get(x, path[1]), Tail(path), new))
    ELSE LET i == CHOOSE j \in 1..Len(x.v) : StrOfNat(j - 1) = path[1]
         IN  L([x.v EXCEPT ![i] = SetPath(x.v[i], Tail(path), new)])

\* the object that x refers to, as it is now
Deref(document, x) ==
    IF IsDict(x) /\ x.id # NoId /\ HasPath(document, x.id)
       /\ IsDict(AtPath(document, x.id)) /\ AtPath(document, x.id).id = x.id
    THEN AtPath(document, x.id)
    ELSE x

(***************************************************************************)
(* resolve_reference, for a reference into the document at hand            *)
(* (`#/a/b`, `#`).  A reference with a path or a scheme goes through       *)
(* fetch_content, the Content Source; the documents of this model hold     *)
(* none.                                                                   *)
(***************************************************************************)
\* urlparse(ref).fragment and what precedes it
UrlFragment(ref) ==
    IF \E i \in 1..Len(ref) : ref[i] = "#"
    THEN SubSeq(ref, (CHOOSE i \in 1..Len(ref) :
                         ref[i] = "#" /\ \A j \in 1..(i - 1) : ref[j] # "#") + 1,
                Len(ref))
    ELSE << >>
UrlBeforeFragment(ref) ==
    IF \E i \in 1..Len(ref) : ref[i] = "#"
    THEN SubSeq(ref, 1, (CHOOSE i \in 1..Len(ref) :
                            ref[i] = "#" /\ \A j \in 1..(i - 1) : ref[j] # "#") - 1)
    ELSE ref

\* jsonpointer.resolve_pointer(json_doc, pointer): [ok, v]; ~ok is a
\* JsonPointerException
RECURSIVE WalkPointer(_, _, _)
WalkPointer(document, x, parts) ==
    IF parts = << >> THEN [ok |-> TRUE, v |-> x]
    ELSE IF ~HasChild(x, parts[1]) THEN [ok |-> FALSE, v |-> None]
    ELSE WalkPointer(document, Deref(document, ChildOf(x, parts[1])), Tail(parts))
resolve_pointer_or_default(document, pointer) ==
    IF pointer = << >> THEN [ok |-> TRUE, v |-> document]
    ELSE IF pointer[1] # "/" \/ ~WalkPointer(document, document, Tail(Split(pointer, "/"))).ok
    THEN [ok |-> TRUE, v |-> None]
    ELSE WalkPointer(document, document, Tail(Split(pointer, "/")))
resolve_pointer(document, pointer) ==
    IF pointer = << >> THEN [ok |-> TRUE, v |-> document]
    ELSE IF pointer[1] # "/" THEN [ok |-> FALSE, v |-> None]
    ELSE WalkPointer(document, document, Tail(Split(pointer, "/")))

\* lines 248-276: [v |-> the referenced schema, err |-> exception]
resolve_reference(json_type, document) ==
    LET ref == Get(json_type, s_ref).v
        fragment == UrlFragment(ref)
        found == resolve_pointer(document, fragment)
    IN  IF UrlBeforeFragment(ref) # << >>
        THEN [v |-> None, err |-> "Exception"]
        ELSE IF fragment # << >>
        THEN IF ~found.ok THEN [v |-> None, err |-> "Exception"]
             ELSE IF Truthy(found.v) THEN [v |-> found.v, err |-> ""]
             ELSE [v |-> json_type, err |-> ""]
        ELSE [v |-> json_type, err |-> ""]

(***************************************************************************)
(* The converter proper.  The functions below take and return the state    *)
(* they work on as a record c:                                             *)
(*   c.doc   the document          c.imp   self.imported_types             *)
(*   c.reg   avro_schema           c.stk   record_stack                    *)
(*   c.log   the history `emitted` c.root  self.root_namespace             *)
(*   c.res   the history `resolutions`                                     *)
(*   c.err   the exception that is propagating, "" for none                *)
(* and return [c, v, deps]: the state, the returned value and the caller's *)
(* dependency list after the call.                                         *)
(***************************************************************************)
\* the depth of nested calls after which the interpreter raises RecursionError
MaxDepth == 8

Ret(c, v, deps) == [c |-> c, v |-> v, deps |-> deps]
Raise(c, e, deps) == [c |-> [c EXCEPT !.err = e], v |-> None, deps |-> deps]
Failed(r) == r.c.err # ""

StrIs(x, cs) == IsStr(x) /\ x.v = cs

\* `cs in x` for a string cs: a key of a dict, a member of a list, a
\* substring of a string; a TypeError for anything else
PyInOk(x) == x.k \in {"d", "l", "s"}
PyIn(cs, x) ==
    CASE x.k = "d" -> Has(x, cs)
      [] x.k = "l" -> InList(S(cs), x)
      [] x.k = "s" -> Contains(x.v, cs)
      [] OTHER -> FALSE

\* is x the object that the document holds at x's path
AtHome(document, x) ==
    /\ IsDict(x) /\ x.id # NoId /\ HasPath(document, x.id)
    /\ IsDict(AtPath(document, x.id)) /\ AtPath(document, x.id).id = x.id
\* the state after the node `old` was changed in place into `new`
Wrote(c, old, new) ==
    IF new # old /\ AtHome(c.doc, old)
    THEN [c EXCEPT !.doc = SetPath(c.doc, old.id, new)]
    ELSE c

\* lines 304-315
StripConditionals(json_type) ==
    Del(Del(Del(Del(Del(json_type, s_if), s_then), s_else),
            s_dependentSchemas), s_dependentRequired)

\* {**a, **b}
Overlay(a, b) == Update(ShallowCopy(a), b)

\* lines 317-323
BaseType(json_type) ==
    Del(Del(Del(ShallowCopy(json_type), s_oneOf), s_anyOf), s_allOf)

\* lines 344-349: the alternatives of anyOf, merged into one
WithAnyOf(json_types, any) ==
    IF any.err # "" THEN [v |-> << >>, err |-> any.err]
    ELSE [v |-> Append(json_types, any.v), err |-> ""]
AnyOf(json_type, base_type, json_types) ==
    IF ~Has(json_type, s_anyOf) THEN [v |-> json_types, err |-> ""]
    ELSE WithAnyOf(json_types,
                   merge_json_schemas(<< DeepCopy(base_type) >>
                                      \o Get(json_type, s_anyOf).v, TRUE))
\* lines 334-343: one candidate for every alternative of oneOf
OneOf(json_type, base_type, json_types) ==
    AnyOf(json_type, base_type,
          IF ~Has(json_type, s_oneOf) THEN json_types
          ELSE [i \in 1..Len(Get(json_type, s_oneOf).v) |->
                   Overlay(IF Len(json_types) = 0 THEN base_type ELSE json_types[1],
                           Get(json_type, s_oneOf).v[i])])
\* lines 324-333: the alternatives of allOf, merged into one
WithAllOf(json_type, base_type, all) ==
    IF all.err # "" THEN [v |-> << >>, err |-> all.err]
    ELSE OneOf(json_type, base_type,
               IF Has(json_type, s_allOf) THEN << all.v >> ELSE << >>)
\* lines 317-349: the list json_types, [v, err]
Candidates(json_type) ==
    IF \/ Has(json_type, s_allOf) /\ ~IsList(Get(json_type, s_allOf))
       \/ Has(json_type, s_oneOf) /\ ~IsList(Get(json_type, s_oneOf))
       \/ Has(json_type, s_anyOf) /\ ~IsList(Get(json_type, s_anyOf))
       \/ /\ Has(json_type, s_oneOf) /\ IsList(Get(json_type, s_oneOf))
          /\ \E i \in 1..Len(Get(json_type, s_oneOf).v) :
                ~IsDict(Get(json_type, s_oneOf).v[i])
    THEN [v |-> << >>, err |-> "TypeError"]
    ELSE WithAllOf(json_type, BaseType(json_type),
                   IF Has(json_type, s_allOf)
                   THEN merge_json_schemas(<< DeepCopy(BaseType(json_type)) >>
                                           \o Get(json_type, s_allOf).v, FALSE)
                   ELSE [v |-> None, err |-> ""])

\* lines 402-408: the name and the namespace a referenced type is given
RefTypeName(ref, record_name) ==
    LET parts == Split(UrlFragment(ref), "/")
    IN  IF UrlFragment(ref) # << >> THEN avro_name(parts[Len(parts)]) ELSE record_name
RefTypeNamespace(ref, namespace, root) ==
    LET parts == Split(UrlFragment(ref), "/")
        sub_namespace == Join(SubSeq(parts, 2, Len(parts) - 1), s_dot)
    IN  IF UrlFragment(ref) # << >>
        THEN IF Len(sub_namespace) > 0 THEN root \o s_dot \o sub_namespace
             ELSE root
        ELSE namespace

\* no referenced schema is taken for a type of its own
IsStandaloneNever(resolved) == FALSE

\* lines 415-416: is the referenced schema usable as a type of its own
IsStandalone(resolved) ==
    /\ Truthy(resolved)
    /\ \/ PyIn(s_type, resolved) /\ StrIs(Get(resolved, s_type), s_object)
       \/ PyIn(s_properties, resolved)
       \/ PyIn(s_enum, resolved)
       \/ PyIn(s_allOf, resolved)
       \/ PyIn(s_anyOf, resolved)
       \/ PyIn(s_oneOf, resolved) /\ Len(Get(resolved, s_oneOf).v) <= 1
\* the same test raises TypeError when it subscripts something that is no dict
StandaloneFails(resolved) ==
    /\ Truthy(resolved) /\ ~IsDict(resolved)
    /\ \/ ~PyInOk(resolved)
       \/ PyIn(s_type, resolved)
       \/ /\ ~PyIn(s_properties, resolved) /\ ~PyIn(s_enum, resolved)
          /\ ~PyIn(s_allOf, resolved) /\ ~PyIn(s_anyOf, resolved)
          /\ PyIn(s_oneOf, resolved)

\* a search of the registry that never finds an entry
ExistingTypeNeverFound(reg, item) == 0

\* the entry of the registry with this name and namespace, 0 for none
\* (lines 456, 514, 798)
ExistingType(reg, item) ==
    LET hits == {i \in 1..Len(reg) :
                    /\ JEq(GetOr(reg[i], s_name, None), Get(item, s_name))
                    /\ JEq(GetOr(reg[i], s_namespace, None),
                           GetOr(item, s_namespace, None))}
    IN  IF hits = {} THEN 0 ELSE CHOOSE i \in hits : \A j \in hits : i <= j

\* one more entry of the history `emitted`
Logged(c, item, target, by) ==
    Append(c.log, [name |-> Get(item, s_name),
                   namespace |-> GetOr(item, s_namespace, None),
                   target |-> IF IsDict(target) THEN target.id ELSE NoId,
                   by |-> by])

\* avro_type.get('name', local_name) if isinstance(avro_type, dict) else local_name
NameOr(avro_type, local_name) ==
    IF IsDict(avro_type) THEN GetOr(avro_type, s_name, S(local_name))
    ELSE S(local_name)

\* lines 511-522: a named type that is in the registry already becomes a
\* reference to it
Found(c, avro_type, i, local_name, deps) ==
    LET name == S(Get(c.reg[i], s_namespace).v \o s_dot \o Get(c.reg[i], s_name).v)
    IN  IF i = 0 THEN Ret(c, Put(avro_type, s_name, S(local_name)), deps)
        ELSE Ret(c, name,
                 IF \E j \in 1..Len(deps) : deps[j] = name THEN deps
                 ELSE Append(deps, name))
Spaced(avro_type, namespace) ==
    IF ~Has(avro_type, s_namespace) THEN Put(avro_type, s_namespace, S(namespace))
    ELSE avro_type
Tail_(c, avro_type, local_name, namespace, deps) ==
    IF IsDict(avro_type) /\ Has(avro_type, s_name)
    THEN Found(c, Spaced(avro_type, namespace),
               ExistingType(c.reg, Spaced(avro_type, namespace)), local_name, deps)
    ELSE Ret(c, avro_type, deps)

\* lines 455-464: a record or an enum that a reference resolved to is
\* registered, unless the registry has its name already; [c, at, deps]
RegisteredAs(c, ref, at, target, deps, full_name, isNew) ==
    [c |-> [c EXCEPT !.reg = IF isNew THEN Append(@, at) ELSE @,
                     !.log = IF isNew THEN Logged(c, at, target, "ref") ELSE @,
                     !.imp = IF Has(@, ref) THEN Put(@, ref, full_name) ELSE @],
     at |-> full_name, deps |-> Append(deps, full_name)]
Registered(c, ref, at, target, deps) ==
    IF /\ IsDict(at) /\ Has(at, s_name) /\ Has(at, s_type)
       /\ \/ StrIs(Get(at, s_type), s_record)
          \/ StrIs(Get(at, s_type), s_enum)
    THEN RegisteredAs(c, ref, at, target, deps,
                      IF Has(at, s_namespace)
                      THEN S(Get(at, s_namespace).v \o s_dot \o Get(at, s_name).v)
                      ELSE Get(at, s_name),
                      ExistingType(c.reg, at) = 0)
    ELSE [c |-> c, at |-> at, deps |-> deps]
\* lines 449-453
Depended(c, ref, at, target, local_deps, deps) ==
    Registered(c, ref,
               IF Len(local_deps) > 0 /\ IsDict(at)
               THEN Put(at, s_dependencies, L(local_deps)) ELSE at,
               target,
               IF Len(local_deps) > 0 /\ ~IsDict(at) THEN deps \o local_deps
               ELSE deps)
\* lines 437-443
Merged(c, ref, m, target, local_deps, deps) ==
    IF m.err # "" THEN [c |-> [c EXCEPT !.err = m.err], at |-> None, deps |-> deps]
    ELSE Depended(c, ref, m.v, target, local_deps, deps)
InlinedInto(c, ref, at, rest, target, local_deps, deps, local_name) ==
    Merged(IF Truthy(rest) THEN [c EXCEPT !.imp = Del(@, ref)] ELSE c,
           ref,
           IF Truthy(rest) THEN merge_avro_schemas(<< at, rest >>, c.reg, S(local_name))
           ELSE [v |-> at, err |-> ""],
           target, local_deps, deps)
\* lines 421-464: what a standalone reference becomes once its target is
\* converted; returns [c, at, deps]
Resolved(c, ref, avro_type, r, target, local_deps, deps, local_name) ==
    IF \/ IsList(r) \/ ~IsDict(r)
       \/ /\ ~StrIs(GetOr(r, s_type, None), s_record)
          /\ ~StrIs(GetOr(r, s_type, None), s_enum)
    THEN IF IsDict(r) /\ ~Has(r, s_type)
         THEN InlinedInto(c, ref,
                          IF IsDict(avro_type) THEN Update(avro_type, r)
                          ELSE avro_type,
                          IF IsDict(avro_type) THEN None ELSE generic_type,
                          target, local_deps, deps, local_name)
         ELSE IF IsStr(avro_type) /\ Truthy(r)
         THEN InlinedInto([c EXCEPT !.imp = Put(@, ref, r)], ref, r, None, target,
                          local_deps, deps, local_name)
         ELSE InlinedInto(c, ref, avro_type, r, target, local_deps, deps, local_name)
    ELSE Depended([c EXCEPT !.imp = Put(@, ref, DeepCopy(r))], ref, r, target,
                  local_deps, deps)

\* ensure_type, lines 155-160
ensure_type(type) ==
    IF IsStr(type) \/ IsList(type) \/ Has(type, s_type) THEN type
    ELSE Put(type, s_type, generic_type)

\* lines 295-300: the arguments of one call of json_type_to_avro_type, with
\* its local_name
Call(record_name, field_name, namespace, deps, depth) ==
    [record_name |-> record_name, field_name |-> field_name,
     namespace |-> namespace, deps |-> deps, depth |-> depth,
     local_name |-> avro_name(IF Truthy(field_name) THEN field_name.v
                              ELSE record_name.v)]

\* what json_type_to_avro_type has in hand before it looks at `const`, `type`
\* and `enum`: the state, the node, the type so far, the dependencies, and
\* whether it returns at once
Entry(c, jt, at, deps, ret) == [c |-> c, jt |-> jt, at |-> at, deps |-> deps, ret |-> ret]

RECURSIVE json_type_to_avro_type(_, _, _, _, _, _, _)
RECURSIVE json_schema_object_to_avro_record(_, _, _, _, _)
RECURSIVE Options(_, _, _, _, _, _)
RECURSIVE Reference(_, _, _, _)
RECURSIVE TypeOf(_, _, _, _)
RECURSIVE Members(_, _, _, _, _, _, _, _, _)

\* an alternative that is a union joins the union as one member
OptionAddedWhole(r, json_types, count, k, subtypes) ==
    LET avro_subtype == IF IsDict(r.v) THEN Del(r.v, s_dependencies) ELSE r.v
    IN  IF Failed(r) THEN r
        ELSE Options(r.c, json_types, count + 1, k, r.deps,
                     IF is_empty_type(avro_subtype) THEN subtypes
                     ELSE Append(subtypes, avro_subtype))

\* lines 362-372: one converted alternative joins the union
OptionAdded(r, json_types, count, k, subtypes) ==
    LET avro_subtype == IF IsDict(r.v) THEN Del(r.v, s_dependencies) ELSE r.v
    IN  IF Failed(r) THEN r
        ELSE Options(r.c, json_types, count + 1, k, r.deps,
                     IF is_empty_type(avro_subtype) THEN subtypes
                     ELSE IF IsList(avro_subtype) THEN subtypes \o avro_subtype.v
                     ELSE Append(subtypes, avro_subtype))
\* lines 358-376: the alternatives of a node, converted one by one
Options(c, json_types, count, k, deps, subtypes) ==
    IF count > Len(json_types)
    THEN Ret(c, IF Len(subtypes) = 1 THEN subtypes[1] ELSE L(subtypes), deps)
    ELSE OptionAdded(
             json_type_to_avro_type(
                 c, json_types[count], k.record_name,
                 IF ~IsDict(json_types[count]) \/ ~Has(json_types[count], s_ref)
                 THEN S(avro_name(k.local_name \o s_underscore \o StrOfNat(count)))
                 ELSE None,
                 k.namespace, deps, k.depth + 1),
             json_types, count, k, subtypes)

\* one more entry of the history `resolutions`: the cache answered for the
\* reference ("hit"), the conversion of its target as a type of its own
\* starts ("enter") or has returned ("exit"), or the node takes the place of
\* the reference ("inline")
Noted(c, ref, fragment, at) ==
    [c EXCEPT !.res = Append(@, [ref |-> ref, fragment |-> fragment, at |-> at])]
\* a failure inside the handling of `$ref`
RefFailed(c, json_type, k, e) ==
    Entry([c EXCEPT !.err = e], json_type, None, k.deps, TRUE)
\* lines 421-464
Standalone(json_type, x) == Entry(x.c, json_type, x.at, x.deps, x.c.err # "")
\* lines 400-420: the target of a reference is converted as a type of its own
RefConverted(r, json_type, avro_type, target, k) ==
    IF Failed(r) THEN RefFailed(r.c, json_type, k, r.c.err)
    ELSE Standalone(json_type,
                    Resolved(Noted(r.c, Get(json_type, s_ref).v, None, "exit"),
                             Get(json_type, s_ref).v, avro_type, r.v, target,
                             r.deps, k.deps, k.local_name))
RefNamed(c, json_type, avro_type, target, type_name, type_namespace, k) ==
    IF StandaloneFails(target) THEN RefFailed(c, json_type, k, "TypeError")
    ELSE RefConverted(
             json_type_to_avro_type(
                 IF IsStandalone(target)
                 THEN [Noted(c, Get(json_type, s_ref).v, target, "enter")
                         EXCEPT !.imp =
                           Put(@, Get(json_type, s_ref).v,
                               S(type_namespace \o s_dot \o type_name))]
                 ELSE Noted(c, Get(json_type, s_ref).v, target, "enter"),
                 target, S(type_name), k.field_name, S(type_namespace), << >>,
                 k.depth + 1),
             json_type, avro_type, target, k)
\* lines 467-475: the node takes the place of its reference
RefInlined(r, json_type, jt3, k) ==
    IF Failed(r) THEN RefFailed(r.c, json_type, k, r.c.err)
    ELSE Entry(IF Has(r.c.imp, Get(json_type, s_ref).v)
               THEN [r.c EXCEPT !.imp =
                       Put(@, Get(json_type, s_ref).v,
                           IF IsDict(r.v) /\ Has(r.v, s_name)
                           THEN Get(r.v, s_name) ELSE r.v)]
               ELSE r.c,
               IF AtHome(r.c.doc, jt3) THEN Deref(r.c.doc, jt3) ELSE jt3,
               r.v, r.deps, FALSE)
RefInline(c, json_type, jt3, k) ==
    RefInlined(json_type_to_avro_type(Wrote(Noted(c, Get(json_type, s_ref).v,
                                                  jt3, "inline"),
                                            json_type, jt3),
                                      jt3, k.record_name,
                                      k.field_name, k.namespace, k.deps,
                                      k.depth + 1),
               json_type, jt3, k)
\* lines 395-399
RefResolved(c, json_type, avro_type, res, k) ==
    IF res.err # "" THEN RefFailed(c, json_type, k, res.err)
    ELSE IF is_empty_type(json_type)
    THEN RefNamed(c, json_type, avro_type, res.v,
                  RefTypeName(Get(json_type, s_ref).v, k.record_name.v),
                  RefTypeNamespace(Get(json_type, s_ref).v, k.namespace.v, c.root),
                  k)
    ELSE IF ~IsDict(res.v) THEN RefFailed(c, json_type, k, "TypeError")
    ELSE RefInline(c, json_type, Del(Update(json_type, res.v), s_ref), k)
\* lines 388-475: a node with `$ref`
Reference(c, json_type, avro_type, k) ==
    IF ~IsStr(Get(json_type, s_ref)) THEN RefFailed(c, json_type, k, "TypeError")
    ELSE IF Has(c.imp, Get(json_type, s_ref).v)
    \* lines 390-394
    THEN Entry(Noted(c, Get(json_type, s_ref).v, None, "hit"), json_type,
               Get(c.imp, Get(json_type, s_ref).v),
               IF IsStr(Get(c.imp, Get(json_type, s_ref).v))
               THEN Append(k.deps, Get(c.imp, Get(json_type, s_ref).v))
               ELSE k.deps,
               TRUE)
    ELSE RefResolved(c, json_type, avro_type, resolve_reference(json_type, c.doc), k)

\* which branch of lines 482-509 a node takes, t being its `type`
TypeMode(json_type, t) ==
    IF ~IsDict(json_type) THEN "plain"
    ELSE IF Truthy(t)
    THEN IF StrIs(t, s_array) THEN "array"
         ELSE IF ~PyInOk(t) THEN "error"
         ELSE IF StrIs(t, s_object) \/ PyIn(s_object, t) THEN "object"
         ELSE "primitive"
    ELSE IF Has(json_type, s_enum) THEN "enum"
    ELSE "none"
\* lines 498 and 501: local_name = field_name = ...
TypeName(k, md) ==
    IF md \in {"primitive", "enum"}
    THEN IF Truthy(k.field_name) THEN k.field_name.v
         ELSE IF md = "enum" THEN k.local_name
         ELSE k.local_name \o s_suffix_value
    ELSE k.local_name
\* lines 511-522
TypeMerged(c, m, md, nm, deps, k) ==
    IF m.err # "" THEN Raise(c, m.err, deps)
    ELSE Tail_(c,
               IF md = "object" /\ IsDict(m.v) /\ Has(m.v, s_dependencies)
               THEN Del(m.v, s_dependencies)
               ELSE IF md = "enum" /\ IsDict(m.v)
               THEN Put(m.v, s_namespace,
                        S(IF Len(c.stk) > 0
                          THEN k.namespace.v \o s_dot \o c.stk[Len(c.stk)]
                          ELSE nm))
               ELSE m.v,
               nm, k.namespace.v,
               IF md = "object" /\ IsDict(m.v) /\ Has(m.v, s_dependencies)
               THEN deps \o Get(m.v, s_dependencies).v
               ELSE deps)
\* lines 484-509: the converted type is merged into the type so far
TypeConverted(r, at, md, nm, k) ==
    IF Failed(r) THEN (IF md = "object" THEN Ret(r.c, None, k.deps) ELSE r)
    ELSE TypeMerged(r.c,
                    IF md = "primitive" THEN [v |-> r.v, err |-> ""]
                    ELSE IF md = "none" THEN [v |-> at, err |-> ""]
                    ELSE merge_avro_schemas(
                             << at,
                                IF md = "array"
                                THEN D(<< <<s_type, S(s_array)>>, <<s_items, r.v>> >>)
                                ELSE r.v >>,
                             r.c.reg, NameOr(at, nm)),
                    md, nm,
                    IF md = "object" THEN k.deps ELSE r.deps,
                    k)
\* the outcome of json_schema_primitive_to_avro_type, as a result
PrimitiveResult(c, p) ==
    IF p.err # "" THEN Raise(c, p.err, p.deps) ELSE Ret(c, p.v, p.deps)
\* lines 482-509
TypeDispatch(c, json_type, at, t, md, nm, k) ==
    TypeConverted(
        CASE md = "array" ->
                IF Has(json_type, s_items)
                THEN json_type_to_avro_type(c, Get(json_type, s_items), k.record_name,
                         k.field_name, k.namespace, k.deps, k.depth + 1)
                ELSE Ret(c, generic_type, k.deps)
          [] md = "object" ->
                json_schema_object_to_avro_record(c, S(k.local_name), json_type,
                                                  k.namespace, k.depth + 1)
          [] md \in {"primitive", "enum", "plain"} ->
                PrimitiveResult(c,
                    json_schema_primitive_to_avro_type(
                        IF md = "primitive" THEN t
                        ELSE IF md = "enum" THEN S(s_string)
                        ELSE json_type,
                        IF IsDict(json_type) THEN GetOr(json_type, s_format, None)
                        ELSE None,
                        IF IsDict(json_type) THEN GetOr(json_type, s_enum, None)
                        ELSE None,
                        IF md = "plain" THEN k.field_name ELSE S(nm),
                        k.deps))
          [] md = "error" -> Raise(c, "TypeError", k.deps)
          [] OTHER -> Ret(c, None, k.deps),
        at, md, nm, k)
\* lines 478-480
TypeConst(c, json_type, m, t, k) ==
    IF m.err # "" THEN Raise(c, m.err, k.deps)
    ELSE TypeDispatch(c, json_type, m.v, t, TypeMode(json_type, t),
                      TypeName(k, TypeMode(json_type, t)), k)
\* json_object_type, lines 482-486
ObjectType(json_type) ==
    LET t == IF IsDict(json_type) THEN GetOr(json_type, s_type, None) ELSE None
    IN  IF IsList(t) /\ Len(t.v) = 1 THEN t.v[1] ELSE t
\* lines 477-522: `const`, `type` and `enum` of a node, or a node that is no
\* dict (lines 505-509), and the final naming; k.deps are the dependencies
\* so far
TypeOf(c, json_type, avro_type, k) ==
    TypeConst(c, json_type,
              IF IsDict(json_type) /\ Has(json_type, s_const)
              THEN merge_avro_schemas(
                       << avro_type,
                          D(<< <<s_type, S(s_enum)>>,
                               <<s_symbols, L(<< Get(json_type, s_const) >>)>>,
                               <<s_name, S(avro_name(k.local_name))>> >>) >>,
                       c.reg, S(k.local_name))
              ELSE [v |-> avro_type, err |-> ""],
              ObjectType(json_type), k)

\* lines 388-475
Described(c, json_type, at, k) ==
    IF Has(json_type, s_ref) THEN Reference(c, json_type, at, k)
    ELSE Entry(c, json_type, at, k.deps, FALSE)
\* lines 381-385
Titled(c, json_type, k) ==
    IF Has(json_type, s_title) /\ ~IsStr(Get(json_type, s_title))
    THEN Entry([c EXCEPT !.err = "TypeError"], None, None, k.deps, TRUE)
    ELSE Described(
             c, json_type,
             UpdateFrom(
                 EmptyDict,
                 (IF Has(json_type, s_description)
                  THEN << <<s_doc, Get(json_type, s_description)>> >>
                  ELSE << >>)
                 \o (IF Has(json_type, s_title)
                     THEN << <<s_name, S(avro_name(Get(json_type, s_title).v))>> >>
                     ELSE << >>),
                 1),
             k)
\* lines 378-379
TypedObject(json_type) ==
    IF Has(json_type, s_properties) /\ ~Has(json_type, s_type)
    THEN Put(json_type, s_type, S(s_object)) ELSE json_type
\* lines 376 and 357: the call returns what its candidates became
Returned(r) == Entry(r.c, None, r.v, r.deps, TRUE)
\* lines 351-357: a single candidate
Single(r, json_type) ==
    Returned(IF /\ ~Failed(r) /\ IsDict(r.v) /\ is_empty_type(r.v)
                /\ ~Has(json_type, s_allOf)
             THEN Ret(r.c, Put(r.v, s_type, generic_type), r.deps)
             ELSE r)
\* lines 351-376
Composite(c, json_type, json_types, k) ==
    IF json_types.err # ""
    THEN Entry([c EXCEPT !.err = json_types.err], None, None, k.deps, TRUE)
    ELSE IF Len(json_types.v) = 0
    THEN Titled(Wrote(c, json_type, TypedObject(json_type)), TypedObject(json_type), k)
    ELSE IF Len(json_types.v) = 1
    THEN Single(json_type_to_avro_type(c, json_types.v[1], k.record_name,
                    k.field_name, k.namespace, k.deps, k.depth + 1),
                json_type)
    ELSE Returned(Options(c, json_types.v, 1, k, k.deps, << >>))
\* lines 302-349
Node(c, json_type, k) ==
    IF ~IsDict(json_type) THEN Entry(c, json_type, EmptyDict, k.deps, FALSE)
    ELSE Composite(Wrote(c, json_type, StripConditionals(json_type)),
                   StripConditionals(json_type),
                   Candidates(StripConditionals(json_type)), k)
\* lines 477-522, unless the call has returned
Finished(x, k) ==
    IF x.ret THEN Ret(x.c, x.at, x.deps)
    ELSE TypeOf(x.c, x.jt, x.at, [k EXCEPT !.deps = x.deps])

\* lines 295-522
json_type_to_avro_type(c, json_type_arg, record_name, field_name, namespace,
                       deps, depth) ==
    IF depth > MaxDepth THEN Raise(c, "RecursionError", deps)
    ELSE Finished(Node(c, Deref(c.doc, json_type_arg),
                       Call(record_name, field_name, namespace, deps, depth)),
                  Call(record_name, field_name, namespace, deps, depth))

\* lines 467-468, seen from the caller: a node with `$ref` next to other
\* keys is changed in place into the node it refers to, overlaid
InlinedOverlaid(json_type, typed, res) ==
    IF res.err = "" /\ IsDict(res.v) THEN Del(Update(typed, res.v), s_ref)
    ELSE json_type
InlinedTyped(c, json_type, typed) ==
    IF /\ Has(typed, s_ref)
       /\ ~Has(typed, s_allOf) /\ ~Has(typed, s_oneOf) /\ ~Has(typed, s_anyOf)
       /\ IsStr(Get(typed, s_ref)) /\ ~Has(c.imp, Get(typed, s_ref).v)
       /\ ~is_empty_type(typed)
    THEN InlinedOverlaid(json_type, typed, resolve_reference(typed, c.doc))
    ELSE json_type
Inlined(c, json_type) ==
    IF IsDict(json_type)
    THEN InlinedTyped(c, json_type, TypedObject(StripConditionals(json_type)))
    ELSE json_type

\* lines 616-628: the field of a property, w being the member
Property(c, deps, w, avro_field_type, left, required_fields) ==
    IF IsNone(avro_field_type) THEN Raise(c, "ValueError", deps)
    ELSE IF ~PyInOk(required_fields) \/ ~PyInOk(avro_field_type)
    THEN Raise(c, "TypeError", deps)
    ELSE Ret(c,
             UpdateFrom(
                 D(<< <<s_name, S(avro_name(w.name))>>,
                      <<s_type,
                        IF \/ PyIn(w.name, required_fields)
                           \/ PyIn(s_null, avro_field_type)
                        THEN avro_field_type
                        ELSE IF IsList(avro_field_type)
                        THEN L(Append(avro_field_type.v, S(s_null)))
                        ELSE L(<< S(s_null), avro_field_type >>)>> >>),
                 IF Truthy(GetOr(left, s_description, None))
                 THEN << <<s_doc, Get(left, s_description)>> >>
                 ELSE << >>,
                 1),
             deps)
\* lines 606-614
Ensured(c, deps, w, type, left, required_fields) ==
    Property(c,
             IF IsDict(type) /\ Has(type, s_dependencies)
             THEN deps \o Get(type, s_dependencies).v ELSE deps,
             w,
             IF /\ IsDict(type) /\ Has(type, s_type)
                /\ ~InList(Get(type, s_type),
                           L(<< S(s_array), S(s_map), S(s_record), S(s_enum),
                                S(s_fixed) >>))
             THEN Get(type, s_type)
             ELSE IF IsDict(type) THEN Del(type, s_dependencies)
             ELSE type,
             left, required_fields)
\* lines 646-661 and 678-691
PatternField(c, deps, w, prop_type, namespace) ==
    IF w.strict /\ is_empty_type(prop_type) THEN Raise(c, "ValueError", deps)
    ELSE Ret(c,
             D(<< <<s_name, S(avro_name(w.field))>>,
                  <<s_namespace, S(namespace)>>,
                  <<s_type, D(<< <<s_type, S(s_map)>>,
                                 <<s_values, DeepCopy(prop_type)>> >>)>> >>),
             deps)
\* {"type": "map", "values": ...}
MapOf(values) == D(<< <<s_type, S(s_map)>>, <<s_values, values>> >>)
\* the field has the value type itself as its type, and not a map of it
AdditionalFieldUnmapped(w, values_type, record_name, namespace) ==
    D(<< <<s_name, S(IF w.strict THEN record_name ELSE s_values)>>,
         <<s_type, values_type>> >>)
\* lines 630-645 and 663-677
AdditionalField(w, values_type, record_name, namespace) ==
    IF w.strict
    THEN D(<< <<s_name, S(record_name)>>, <<s_namespace, S(namespace)>>,
              <<s_type, MapOf(values_type)>> >>)
    ELSE D(<< <<s_name, S(s_values)>>, <<s_type, MapOf(DeepCopy(values_type))>> >>)
\* lines 601-717: the field that the member w becomes, r being its converted
\* type and c the state before the conversion
Field(c, r, w, schema, record_name, namespace, required_fields) ==
    IF Failed(r) THEN r
    ELSE CASE w.kind = "property" ->
                Ensured(r.c, r.deps, w, ensure_type(r.v),
                        IF AtHome(c.doc, schema) THEN Deref(r.c.doc, schema)
                        ELSE Inlined(c, schema),
                        required_fields)
           [] w.kind = "pattern" ->
                PatternField(r.c, r.deps, w, ensure_type(r.v), namespace)
           [] w.kind = "additional" ->
                Ret(r.c,
                    AdditionalField(w, IF is_empty_type(r.v) THEN generic_type
                                       ELSE r.v,
                                    record_name, namespace),
                    r.deps)
           [] w.kind = "generic" /\ w.field = s_map ->
                Ret(r.c, D(<< <<s_name, S(s_values)>>, <<s_type, MapOf(r.v)>> >>),
                    r.deps)
           [] OTHER ->
                Ret(r.c,
                    D(<< <<s_name, S(s_values)>>,
                         <<s_type, D(<< <<s_type, S(s_array)>>,
                                        <<s_items, DeepCopy(r.v)>> >>)>> >>),
                    r.deps)
\* the field joins the fields of the record, and the loop goes on
Added(f, members, i, record_name, namespace, required_fields, fields, depth) ==
    IF Failed(f) THEN Ret(f.c, fields, f.deps)
    ELSE Members(f.c, members, i + 1, record_name, namespace, required_fields,
                 f.deps, Append(fields, f.v), depth)
\* one member; a property that is no dict is passed over (line 602)
Member(c, members, i, schema, record_name, namespace, required_fields, deps,
       fields, depth) ==
    IF members[i].kind = "property" /\ ~IsDict(schema)
    THEN Members(c, members, i + 1, record_name, namespace, required_fields, deps,
                 fields, depth)
    ELSE Added(Field(c,
                     IF members[i].kind = "generic" THEN Ret(c, generic_type, deps)
                     ELSE json_type_to_avro_type(c, schema, S(record_name),
                              S(members[i].field), S(namespace), deps, depth + 1),
                     members[i], schema, record_name, namespace, required_fields),
               members, i, record_name, namespace, required_fields, fields, depth)
\* lines 599-720: the members of an object that become fields of the record,
\* one by one; a member is [kind, field, name, schema, strict] with kind
\* "property" (lines 601-628), "additional" (630-645, 663-677), "pattern"
\* (646-661, 678-691), "items" (707-717) or "generic" (692-706, an object or
\* an array of anything), and with `strict` for a member that stands next to
\* `properties`; returns [c, v |-> the fields, deps]
Members(c, members, i, record_name, namespace, required_fields, deps, fields,
        depth) ==
    IF i > Len(members) THEN Ret(c, fields, deps)
    ELSE Member(c, members, i, Deref(c.doc, members[i].schema), record_name,
                namespace, required_fields, deps, fields, depth)

\* lines 538-564: a union, a string or a type that is no record is wrapped
\* into a record
Wrapped(type, name, namespace) ==
    IF IsList(type) \/ IsStr(type)
    THEN D(<< <<s_type, S(s_record)>>,
              <<s_name, S(name.v \o s_suffix_union)>>,
              <<s_namespace, namespace>>,
              <<s_fields,
                L(<< D(<< <<s_name, S(s_value)>>, <<s_type, type>> >>) >>)>> >>)
    ELSE IF IsDict(type) /\ Has(type, s_type) /\ ~StrIs(Get(type, s_type), s_record)
    THEN D(<< <<s_type, S(s_record)>>,
              <<s_name, GetOr(type, s_name, S(name.v \o s_suffix_type))>>,
              <<s_namespace, GetOr(type, s_namespace, namespace)>>,
              <<s_fields,
                L(<< D(<< <<s_name, S(s_value)>>,
                          <<s_type, Del(type, s_dependencies)>> >>) >>)>>,
              <<s_dependencies, GetOr(type, s_dependencies, L(<< >>))>> >>)
    ELSE type
\* lines 565-566
WithDependencies(c, type, deps) ==
    Ret(c, IF Len(deps) > 0 /\ IsDict(type)
           THEN Put(type, s_dependencies, L(deps)) ELSE type,
        << >>)
ComposedOf(r, name, namespace) ==
    IF Failed(r) THEN Ret(r.c, None, << >>)
    ELSE WithDependencies(r.c, Wrapped(r.v, name, namespace), r.deps)
\* lines 531-566: an object with allOf, oneOf or anyOf
Composed(c, name, json_object, namespace, depth) ==
    ComposedOf(json_type_to_avro_type(c, json_object, name, S(s_value), namespace,
                                      << >>, depth + 1),
               name, namespace)

\* name = re.sub(...) of a pattern, `extensions` for an empty one
PatternName(pattern) ==
    IF Sanitize(pattern) = << >> THEN s_extensions ELSE Sanitize(pattern)

\* lines 599-720: which members of the object become fields, [v, err, bare];
\* `bare` says that the record is left without `type` and `fields` (line 719)
MembersOf(document, json_object, record_name) ==
    LET additional_props == GetOr(json_object, s_additionalProperties, None)
        pattern_props == GetOr(json_object, s_patternProperties, None)
        type == GetOr(json_object, s_type, None)
        composed == \/ Has(json_object, s_allOf) \/ Has(json_object, s_oneOf)
                    \/ Has(json_object, s_anyOf)
        ok(members) == [v |-> members, err |-> "", bare |-> FALSE]
        fail(e) == [v |-> << >>, err |-> e, bare |-> FALSE]
        additional(strict) ==
            << [kind |-> "additional", field |-> record_name \o s_suffix_extensions,
                name |-> record_name, schema |-> additional_props,
                strict |-> strict] >>
        patterns(strict) ==
            [i \in 1..Len(pattern_props.v) |->
                [kind |-> "pattern", field |-> PatternName(pattern_props.v[i][1]),
                 name |-> pattern_props.v[i][1], schema |-> pattern_props.v[i][2],
                 strict |-> strict]]
        generic(of) ==
            << [kind |-> "generic", field |-> of, name |-> s_values,
                schema |-> None, strict |-> FALSE] >>
        props(properties) ==
            IF ~IsDict(properties) THEN fail("AttributeError")
            ELSE ok([i \in 1..Len(properties.v) |->
                        [kind |-> "property", field |-> properties.v[i][1],
                         name |-> properties.v[i][1],
                         schema |-> properties.v[i][2], strict |-> FALSE]]
                    \o (IF IsDict(additional_props) THEN additional(TRUE)
                        ELSE IF IsDict(pattern_props) THEN patterns(TRUE)
                        ELSE << >>))
    IN  IF Has(json_object, s_properties)
        THEN props(Deref(document, Get(json_object, s_properties)))
        ELSE IF IsDict(additional_props) THEN ok(additional(FALSE))
        ELSE IF IsDict(pattern_props) THEN ok(patterns(FALSE))
        ELSE IF Has(json_object, s_type) /\ ~PyInOk(type) /\ ~StrIs(type, s_object)
        THEN fail("TypeError")
        ELSE IF /\ Has(json_object, s_type)
                /\ (StrIs(type, s_object) \/ PyIn(s_object, type))
                /\ ~composed
        THEN ok(generic(s_map))
        ELSE IF /\ Has(json_object, s_type)
                /\ (StrIs(type, s_array) \/ PyIn(s_array, type))
                /\ ~composed
        THEN ok(IF Has(json_object, s_items)
                THEN << [kind |-> "items", field |-> s_values, name |-> s_values,
                         schema |-> Get(json_object, s_items), strict |-> FALSE] >>
                ELSE generic(s_array))
        ELSE [v |-> << >>, err |-> "", bare |-> TRUE]

\* the record is finished and its name stays on the stack
RecordFinishedUnpopped(f, json_object, avro_record, bare) ==
    IF Failed(f) THEN Ret(f.c, None, << >>)
    ELSE Ret(f.c,
             UpdateFrom(
                 IF bare THEN D(<< <<s_name, Get(avro_record, s_name)>>,
                                   <<s_namespace, Get(avro_record, s_namespace)>> >>)
                 ELSE Put(avro_record, s_fields, L(f.v)),
                 (IF Has(json_object, s_description)
                  THEN << <<s_doc, Get(json_object, s_description)>> >>
                  ELSE << >>)
                 \o (IF Len(f.deps) > 0
                     THEN << <<s_dependencies, L(ListOfSet(f.deps))>> >>
                     ELSE << >>),
                 1),
             << >>)
\* lines 722-729
RecordFinished(f, json_object, avro_record, bare) ==
    IF Failed(f) THEN Ret(f.c, None, << >>)
    ELSE Ret([f.c EXCEPT !.stk = SubSeq(@, 1, Len(@) - 1)],
             UpdateFrom(
                 IF bare THEN D(<< <<s_name, Get(avro_record, s_name)>>,
                                   <<s_namespace, Get(avro_record, s_namespace)>> >>)
                 ELSE Put(avro_record, s_fields, L(f.v)),
                 (IF Has(json_object, s_description)
                  THEN << <<s_doc, Get(json_object, s_description)>> >>
                  ELSE << >>)
                 \o (IF Len(f.deps) > 0
                     THEN << <<s_dependencies, L(ListOfSet(f.deps))>> >>
                     ELSE << >>),
                 1),
             << >>)
\* lines 597-720
RecordFields(c, json_object, avro_record, record_name, namespace, members, depth) ==
    IF members.err # "" THEN Ret([c EXCEPT !.err = members.err], None, << >>)
    ELSE RecordFinished(Members(c, members.v, 1, record_name, namespace,
                                GetOr(json_object, s_required, L(<< >>)),
                                << >>, << >>, depth),
                        json_object, avro_record, members.bare)
\* lines 575-597: a record that is being built already is referred to
RecordBuilt(c, json_object, record_name, namespace, depth) ==
    IF \E i \in 1..Len(c.stk) : c.stk[i] = record_name
    THEN Ret(c, D(<< <<s_type, S(s_record)>>,
                     <<s_name, S(avro_name(record_name \o s_suffix_ref))>>,
                     <<s_namespace, S(namespace)>>,
                     <<s_fields,
                       L(<< D(<< <<s_name, S(record_name)>>,
                                 <<s_type, S(record_name)>> >>) >>)>> >>),
             << >>)
    ELSE RecordFields([c EXCEPT !.stk = Append(@, record_name)], json_object,
                      D(<< <<s_type, S(s_record)>>, <<s_name, S(record_name)>>,
                           <<s_namespace, S(namespace)>>, <<s_fields, L(<< >>)>> >>),
                      record_name, namespace,
                      MembersOf(c.doc, json_object, record_name), depth)
\* lines 568-573
RecordNamed(c, json_object, title, namespace, depth) ==
    IF ~Truthy(title) \/ ~IsStr(title) THEN Raise(c, "TypeError", << >>)
    ELSE RecordBuilt(c, json_object, avro_name(title.v),
                     IF Len(c.stk) > 0 THEN namespace.v \o s_dot \o c.stk[Len(c.stk)]
                     ELSE namespace.v,
                     depth)
Record(c, name, json_object, namespace, depth) ==
    IF IsDict(json_object)
       /\ (\/ Has(json_object, s_allOf) \/ Has(json_object, s_oneOf)
           \/ Has(json_object, s_anyOf))
    THEN Composed(c, name, json_object, namespace, depth)
    ELSE IF ~IsDict(json_object) THEN Raise(c, "AttributeError", << >>)
    ELSE RecordNamed(c, json_object,
                     IF Truthy(name) THEN name ELSE GetOr(json_object, s_title, None),
                     namespace, depth)

\* lines 526-730
json_schema_object_to_avro_record(c, name, json_object_arg, namespace, depth) ==
    IF depth > MaxDepth THEN Raise(c, "RecursionError", << >>)
    ELSE Record(c, name, Deref(c.doc, json_object_arg), namespace, depth)

(***************************************************************************)
(* avrotize.dependency_resolver (not part of the sources at hand): a       *)
(* topological order of the registry in which a type comes after the       *)
(* types it depends on; types that do not depend on each other keep the    *)
(* order of the registry, and so do the types of a dependency cycle.       *)
(***************************************************************************)
QualifiedName(t) ==
    IF Has(t, s_namespace) /\ IsStr(Get(t, s_namespace))
    THEN S(Get(t, s_namespace).v \o s_dot \o Get(t, s_name).v)
    ELSE GetOr(t, s_name, None)
DependsOn(t, u) ==
    /\ IsList(GetOr(t, s_dependencies, None))
    /\ InList(QualifiedName(u), Get(t, s_dependencies))
RECURSIVE SortLoop(_, _)
SortLoop(remaining, sorted) ==
    IF remaining = << >> THEN sorted
    ELSE LET free == {i \in 1..Len(remaining) :
                        \A j \in 1..Len(remaining) :
                            j # i => ~DependsOn(remaining[i], remaining[j])}
             i == IF free = {} THEN 1 ELSE CHOOSE k \in free : \A m \in free : k <= m
         IN  SortLoop([j \in 1..(Len(remaining) - 1) |->
                          IF j < i THEN remaining[j] ELSE remaining[j + 1]],
                      Append(sorted, remaining[i]))
sort_messages_by_dependencies(schemas) == SortLoop(schemas, << >>)

(***************************************************************************)
(* process_definition, process_definition_list, jsons_to_avro              *)
(***************************************************************************)
\* the namespace argument of jsons_to_avro
Namespace == <<"n", "s">>

\* 'type' in schema or 'allOf' in schema or ... (lines 755, 783)
IsDefinition(schema) ==
    \/ PyIn(s_type, schema) \/ PyIn(s_allOf, schema) \/ PyIn(s_oneOf, schema)
    \/ PyIn(s_anyOf, schema) \/ PyIn(s_properties, schema)

\* lines 797-800: an item is registered unless its name is taken
ItemRegistered(c, avro_schema_item, schema) ==
    IF ExistingType(c.reg, avro_schema_item) = 0
    THEN [c EXCEPT !.reg = Append(@, avro_schema_item),
                   !.log = Logged(c, avro_schema_item, schema, "def")]
    ELSE c
RECURSIVE ProcessItems(_, _, _, _, _)
\* lines 796-800
ProcessItems(c, items, i, schema_name, schema) ==
    IF i > Len(items) THEN c
    ELSE IF ~IsDict(items[i]) THEN [c EXCEPT !.err = "TypeError"]
    ELSE ProcessItems(ItemRegistered(c, Put(items[i], s_name,
                                            S(avro_name(schema_name))),
                                     schema),
                      items, i + 1, schema_name, schema)

\* lines 791-800
Listed(r, schema_name, schema) ==
    IF Failed(r) THEN r.c
    ELSE IF ~IsList(r.v) /\ ~IsDict(r.v) THEN r.c
    ELSE ProcessItems(r.c, IF IsList(r.v) THEN r.v.v ELSE << r.v >>, 1,
                      schema_name, schema)
\* lines 788-800; returns the state
process_definition(c, namespace, schema_name, schema) ==
    Listed(json_schema_object_to_avro_record(c, S(schema_name), schema,
                                             S(namespace), 1),
           schema_name, schema)

\* lines 779-786 and 757-760: what process_definition_list is going to
\* process, [q, err]: the entries of the list, in its order, each looked at
\* when its turn comes; `head` is the queue entry that holds the list
process_definition_list(head, json_schema_list) ==
    IF head.kind = "sub" /\ ~IsDict(json_schema_list) /\ ~IsList(json_schema_list)
    THEN [q |-> << >>, err |-> ""]
    ELSE IF head.kind = "entry" /\ ~PyInOk(json_schema_list)
    THEN [q |-> << >>, err |-> "TypeError"]
    ELSE IF ~IsDict(json_schema_list) THEN [q |-> << >>, err |-> "AttributeError"]
    ELSE [q |-> [i \in 1..Len(json_schema_list.v) |->
                   [kind |-> "sub", name |-> json_schema_list.v[i][1],
                    schema |-> json_schema_list.v[i][2]]],
          err |-> ""]

\* an exception, as the outcome of a call
Exc(e) == [k |-> "x", v |-> e]

\* lines 748-763: what jsons_to_avro is going to process, [q, err]; an entry
\* of q is [kind, name, schema] with kind "def" for process_definition,
\* "list" for process_definition_list and "entry" for an entry of
\* `definitions`, which is looked at when its turn comes (lines 755-758)
Dispatch(json_schema) ==
    LET defs == GetOr(json_schema, s_definitions, EmptyDict)
    IN  IF \/ IsDict(json_schema) /\ Has(json_schema, s_type)
           \/ PyIn(s_allOf, json_schema) \/ PyIn(s_oneOf, json_schema)
           \/ PyIn(s_anyOf, json_schema) \/ PyIn(s_properties, json_schema)
        THEN [q |-> << [kind |-> "def", name |-> s_record, schema |-> json_schema] >>,
              err |-> ""]
        ELSE IF /\ IsDict(json_schema)
                /\ \/ Has(json_schema, s_swagger)
                   \/ Has(json_schema, s_definitions) /\ ~Has(json_schema, s_type)
        THEN IF ~Truthy(defs) THEN [q |-> << >>, err |-> "ValueError"]
             ELSE IF ~IsDict(defs) THEN [q |-> << >>, err |-> "AttributeError"]
             ELSE [q |-> [i \in 1..Len(defs.v) |->
                            [kind |-> "entry", name |-> defs.v[i][1],
                             schema |-> defs.v[i][2]]],
                   err |-> ""]
        ELSE IF IsList(json_schema)
        THEN [q |-> << [kind |-> "list", name |-> s_record, schema |-> json_schema] >>,
              err |-> ""]
        ELSE [q |-> << >>, err |-> "ValueError"]

\* the converter and the locals of jsons_to_avro, as one record, and back
Ctx ==
    [doc |-> doc, imp |-> imported_types, reg |-> avro_schema,
     stk |-> record_stack, log |-> emitted, res |-> resolutions,
     root |-> root_namespace, err |-> ""]
Becomes(c) ==
    /\ doc' = c.doc
    /\ imported_types' = c.imp
    /\ avro_schema' = c.reg
    /\ record_stack' = c.stk
    /\ emitted' = c.log
    /\ resolutions' = c.res
    /\ pc' = IF c.err # "" THEN "raised" ELSE pc
    /\ result' = IF c.err # "" THEN Exc(c.err) ELSE result

\* is the head of the queue handed to process_definition (lines 750, 755,
\* 781-783)
HeadIsDefinition(head, schema) ==
    \/ head.kind = "def"
    \/ head.kind = "entry" /\ PyInOk(schema) /\ IsDefinition(schema)
    \/ /\ head.kind = "sub" /\ (IsDict(schema) \/ IsList(schema))
       /\ IsDefinition(schema)

\* lines 748-763 as one step: the state after the queue is worked off, a
\* list being replaced by its entries before the rest of the queue
RECURSIVE Processed(_, _)
ProcessedList(c, entries, q) ==
    IF entries.err # "" THEN [c EXCEPT !.err = entries.err]
    ELSE Processed(c, entries.q \o Tail(q))
Processed(c, q) ==
    IF q = << >> \/ c.err # "" THEN c
    ELSE IF HeadIsDefinition(q[1], Deref(c.doc, q[1].schema))
    THEN Processed(process_definition(c, Namespace, q[1].name,
                                      Deref(c.doc, q[1].schema)), Tail(q))
    ELSE ProcessedList(c, process_definition_list(q[1], Deref(c.doc, q[1].schema)),
                       q)
\* lines 733-777: jsons_to_avro of a converter with this root namespace and
\* these imported types, [c, v] with v the sorted registry or the exception
Sorted(c) ==
    [c |-> c,
     v |-> IF c.err # "" THEN Exc(c.err)
           ELSE L(sort_messages_by_dependencies(c.reg))]
Dispatched(c, d) ==
    IF d.err # "" THEN Sorted([c EXCEPT !.err = d.err])
    ELSE Sorted(Processed(c, d.q))
jsons_to_avro(json_schema, root, imports) ==
    Dispatched([doc |-> json_schema, imp |-> imports, reg |-> << >>,
                stk |-> << >>, log |-> << >>, res |-> << >>, root |-> root,
                err |-> ""],
               Dispatch(json_schema))

(***************************************************************************)
(* The documents handed to jsons_to_avro                                   *)
(***************************************************************************)
\* a single object schema with one optional property
OptionalFieldDocument ==
    D(<<<<<<"t", "y", "p", "e">>, S(<<"o", "b", "j", "e", "c", "t">>)>>,
    <<<<"p", "r", "o", "p", "e", "r", "t", "i", "e", "s">>, D(<<<<<<"b">>,
    D(<<<<<<"t", "y", "p", "e">>, S(<<"i", "n", "t", "e", "g", "e",
    "r">>)>>>>)>>>>)>>>>)

\* required and optional properties of several types
RequiredFieldDocument ==
    D(<<<<<<"t", "y", "p", "e">>, S(<<"o", "b", "j", "e", "c", "t">>)>>,
    <<<<"p", "r", "o", "p", "e", "r", "t", "i", "e", "s">>, D(<<<<<<"a">>,
    D(<<<<<<"t", "y", "p", "e">>, S(<<"s", "t", "r", "i", "n", "g">>)>>>>)>>,
    <<<<"b">>, D(<<<<<<"t", "y", "p", "e">>, S(<<"i", "n", "t", "e", "g", "e",
    "r">>)>>>>)>>, <<<<"c">>, D(<<<<<<"t", "y", "p", "e">>, S(<<"a", "r", "r",
    "a", "y">>)>>, <<<<"i", "t", "e", "m", "s">>, D(<<<<<<"t", "y", "p",
    "e">>, S(<<"s", "t", "r", "i", "n", "g">>)>>>>)>>>>)>>, <<<<"d">>,
    D(<<<<<<"t", "y", "p", "e">>, L(<<S(<<"s", "t", "r", "i", "n", "g">>),
    S(<<"n", "u", "l", "l">>)>>)>>>>)>>>>)>>, <<<<"r", "e", "q", "u", "i",
    "r", "e", "d">>, L(<<S(<<"a">>), S(<<"c">>)>>)>>>>)

\* an optional property named `nullable` that refers to a definition
NullableRefDocument ==
    D(<<<<<<"t", "y", "p", "e">>, S(<<"o", "b", "j", "e", "c", "t">>)>>,
    <<<<"p", "r", "o", "p", "e", "r", "t", "i", "e", "s">>, D(<<<<<<"n", "u",
    "l", "l", "a", "b", "l", "e">>, D(<<<<<<"$", "r", "e", "f">>, S(<<"#",
    "/", "d", "e", "f", "i", "n", "i", "t", "i", "o", "n", "s", "/",
    "B">>)>>>>)>>>>)>>, <<<<"d", "e", "f", "i", "n", "i", "t", "i", "o", "n",
    "s">>, D(<<<<<<"B">>, D(<<<<<<"t", "y", "p", "e">>, S(<<"o", "b", "j",
    "e", "c", "t">>)>>, <<<<"p", "r", "o", "p", "e", "r", "t", "i", "e",
    "s">>, D(<<<<<<"s">>, D(<<<<<<"t", "y", "p", "e">>, S(<<"s", "t", "r",
    "i", "n", "g">>)>>>>)>>>>)>>>>)>>>>)>>>>)

\* a single schema that uses one `$ref` twice
RefTwiceDocument ==
    D(<<<<<<"t", "y", "p", "e">>, S(<<"o", "b", "j", "e", "c", "t">>)>>,
    <<<<"p", "r", "o", "p", "e", "r", "t", "i", "e", "s">>, D(<<<<<<"x">>,
    D(<<<<<<"$", "r", "e", "f">>, S(<<"#", "/", "d", "e", "f", "i", "n", "i",
    "t", "i", "o", "n", "s", "/", "B">>)>>>>)>>, <<<<"y">>, D(<<<<<<"$", "r",
    "e", "f">>, S(<<"#", "/", "d", "e", "f", "i", "n", "i", "t", "i", "o",
    "n", "s", "/", "B">>)>>>>)>>>>)>>, <<<<"d", "e", "f", "i", "n", "i", "t",
    "i", "o", "n", "s">>, D(<<<<<<"B">>, D(<<<<<<"t", "y", "p", "e">>,
    S(<<"o", "b", "j", "e", "c", "t">>)>>, <<<<"p", "r", "o", "p", "e", "r",
    "t", "i", "e", "s">>, D(<<<<<<"s">>, D(<<<<<<"t", "y", "p", "e">>,
    S(<<"s", "t", "r", "i", "n", "g">>)>>>>)>>>>)>>>>)>>>>)>>>>)

\* a `definitions` map in which A uses definition B twice
SwaggerRefTwiceDocument ==
    D(<<<<<<"d", "e", "f", "i", "n", "i", "t", "i", "o", "n", "s">>,
    D(<<<<<<"A">>, D(<<<<<<"t", "y", "p", "e">>, S(<<"o", "b", "j", "e", "c",
    "t">>)>>, <<<<"p", "r", "o", "p", "e", "r", "t", "i", "e", "s">>,
    D(<<<<<<"x">>, D(<<<<<<"$", "r", "e", "f">>, S(<<"#", "/", "d", "e", "f",
    "i", "n", "i", "t", "i", "o", "n", "s", "/", "B">>)>>>>)>>, <<<<"y">>,
    D(<<<<<<"$", "r", "e", "f">>, S(<<"#", "/", "d", "e", "f", "i", "n", "i",
    "t", "i", "o", "n", "s", "/", "B">>)>>>>)>>>>)>>>>)>>, <<<<"B">>,
    D(<<<<<<"t", "y", "p", "e">>, S(<<"o", "b", "j", "e", "c", "t">>)>>,
    <<<<"p", "r", "o", "p", "e", "r", "t", "i", "e", "s">>, D(<<<<<<"s">>,
    D(<<<<<<"t", "y", "p", "e">>, S(<<"s", "t", "r", "i", "n",
    "g">>)>>>>)>>>>)>>>>)>>>>)>>>>)

\* a definition with a property that refers back to it
CyclicNodeDocument ==
    D(<<<<<<"d", "e", "f", "i", "n", "i", "t", "i", "o", "n", "s">>,
    D(<<<<<<"N", "o", "d", "e">>, D(<<<<<<"t", "y", "p", "e">>, S(<<"o", "b",
    "j", "e", "c", "t">>)>>, <<<<"p", "r", "o", "p", "e", "r", "t", "i", "e",
    "s">>, D(<<<<<<"n", "e", "x", "t">>, D(<<<<<<"$", "r", "e", "f">>,
    S(<<"#", "/", "d", "e", "f", "i", "n", "i", "t", "i", "o", "n", "s", "/",
    "N", "o", "d", "e">>)>>>>)>>>>)>>>>)>>>>)>>>>)

\* an object schema with a property that refers to the document root
SelfRefRootDocument ==
    D(<<<<<<"t", "y", "p", "e">>, S(<<"o", "b", "j", "e", "c", "t">>)>>,
    <<<<"p", "r", "o", "p", "e", "r", "t", "i", "e", "s">>, D(<<<<<<"s", "e",
    "l", "f">>, D(<<<<<<"$", "r", "e", "f">>, S(<<"#">>)>>>>)>>>>)>>>>)

\* two definitions that refer to each other
MutualRefsDocument ==
    D(<<<<<<"d", "e", "f", "i", "n", "i", "t", "i", "o", "n", "s">>,
    D(<<<<<<"A">>, D(<<<<<<"t", "y", "p", "e">>, S(<<"o", "b", "j", "e", "c",
    "t">>)>>, <<<<"p", "r", "o", "p", "e", "r", "t", "i", "e", "s">>,
    D(<<<<<<"b">>, D(<<<<<<"$", "r", "e", "f">>, S(<<"#", "/", "d", "e", "f",
    "i", "n", "i", "t", "i", "o", "n", "s", "/", "B">>)>>>>)>>>>)>>>>)>>,
    <<<<"B">>, D(<<<<<<"t", "y", "p", "e">>, S(<<"o", "b", "j", "e", "c",
    "t">>)>>, <<<<"p", "r", "o", "p", "e", "r", "t", "i", "e", "s">>,
    D(<<<<<<"a">>, D(<<<<<<"$", "r", "e", "f">>, S(<<"#", "/", "d", "e", "f",
    "i", "n", "i", "t", "i", "o", "n", "s", "/",
    "A">>)>>>>)>>>>)>>>>)>>>>)>>>>)

\* a self reference next to `type`
TypedSelfRefDocument ==
    D(<<<<<<"d", "e", "f", "i", "n", "i", "t", "i", "o", "n", "s">>,
    D(<<<<<<"N", "o", "d", "e">>, D(<<<<<<"t", "y", "p", "e">>, S(<<"o", "b",
    "j", "e", "c", "t">>)>>, <<<<"p", "r", "o", "p", "e", "r", "t", "i", "e",
    "s">>, D(<<<<<<"n", "e", "x", "t">>, D(<<<<<<"t", "y", "p", "e">>,
    S(<<"o", "b", "j", "e", "c", "t">>)>>, <<<<"$", "r", "e", "f">>, S(<<"#",
    "/", "d", "e", "f", "i", "n", "i", "t", "i", "o", "n", "s", "/", "N", "o",
    "d", "e">>)>>>>)>>>>)>>>>)>>>>)>>>>)

\* two definitions whose names are the same once sanitized
CollidingNamesDocument ==
    D(<<<<<<"d", "e", "f", "i", "n", "i", "t", "i", "o", "n", "s">>,
    D(<<<<<<"a", "-", "b">>, D(<<<<<<"t", "y", "p", "e">>, S(<<"o", "b", "j",
    "e", "c", "t">>)>>, <<<<"p", "r", "o", "p", "e", "r", "t", "i", "e",
    "s">>, D(<<<<<<"s">>, D(<<<<<<"t", "y", "p", "e">>, S(<<"s", "t", "r",
    "i", "n", "g">>)>>>>)>>>>)>>>>)>>, <<<<"a", "_", "b">>, D(<<<<<<"t", "y",
    "p", "e">>, S(<<"o", "b", "j", "e", "c", "t">>)>>, <<<<"p", "r", "o", "p",
    "e", "r", "t", "i", "e", "s">>, D(<<<<<<"t">>, D(<<<<<<"t", "y", "p",
    "e">>, S(<<"i", "n", "t", "e", "g", "e", "r">>)>>>>)>>>>)>>>>)>>>>)>>>>)

\* definitions nested in groups
GroupedDefinitionsDocument ==
    D(<<<<<<"d", "e", "f", "i", "n", "i", "t", "i", "o", "n", "s">>,
    D(<<<<<<"g", "r", "o", "u", "p">>, D(<<<<<<"X">>, D(<<<<<<"t", "y", "p",
    "e">>, S(<<"o", "b", "j", "e", "c", "t">>)>>, <<<<"p", "r", "o", "p", "e",
    "r", "t", "i", "e", "s">>, D(<<<<<<"s">>, D(<<<<<<"t", "y", "p", "e">>,
    S(<<"s", "t", "r", "i", "n", "g">>)>>>>)>>>>)>>>>)>>, <<<<"n">>,
    I(1)>>>>)>>, <<<<"o", "t", "h", "e", "r">>, D(<<<<<<"X">>, D(<<<<<<"t",
    "y", "p", "e">>, S(<<"o", "b", "j", "e", "c", "t">>)>>, <<<<"p", "r", "o",
    "p", "e", "r", "t", "i", "e", "s">>, D(<<<<<<"t">>, D(<<<<<<"t", "y", "p",
    "e">>, S(<<"i", "n", "t", "e", "g", "e",
    "r">>)>>>>)>>>>)>>>>)>>>>)>>>>)>>>>)

\* a bare list of schemas
BareListDocument ==
    L(<<D(<<<<<<"t", "y", "p", "e">>, S(<<"o", "b", "j", "e", "c", "t">>)>>,
    <<<<"p", "r", "o", "p", "e", "r", "t", "i", "e", "s">>, D(<<<<<<"s">>,
    D(<<<<<<"t", "y", "p", "e">>, S(<<"s", "t", "r", "i", "n",
    "g">>)>>>>)>>>>)>>>>), D(<<<<<<"t", "y", "p", "e">>, S(<<"o", "b", "j",
    "e", "c", "t">>)>>, <<<<"p", "r", "o", "p", "e", "r", "t", "i", "e",
    "s">>, D(<<<<<<"t">>, D(<<<<<<"t", "y", "p", "e">>, S(<<"i", "n", "t",
    "e", "g", "e", "r">>)>>>>)>>>>)>>>>)>>)

\* a document with no schema in it
NoSchemaDocument ==
    D(<<<<<<"t", "i", "t", "l", "e">>, S(<<"t">>)>>>>)

\* a Swagger document without definitions
NoDefinitionsDocument ==
    D(<<<<<<"s", "w", "a", "g", "g", "e", "r">>, S(<<"2", ".", "0">>)>>>>)

\* a property with two alternatives
OneOfFieldDocument ==
    D(<<<<<<"t", "y", "p", "e">>, S(<<"o", "b", "j", "e", "c", "t">>)>>,
    <<<<"p", "r", "o", "p", "e", "r", "t", "i", "e", "s">>, D(<<<<<<"u">>,
    D(<<<<<<"o", "n", "e", "O", "f">>, L(<<D(<<<<<<"t", "y", "p", "e">>,
    S(<<"s", "t", "r", "i", "n", "g">>)>>>>), D(<<<<<<"t", "y", "p", "e">>,
    S(<<"i", "n", "t", "e", "g", "e", "r">>)>>>>)>>)>>>>)>>>>)>>, <<<<"r",
    "e", "q", "u", "i", "r", "e", "d">>, L(<<S(<<"u">>)>>)>>>>)

\* a definition that is one of two referenced definitions
OneOfRefsDocument ==
    D(<<<<<<"d", "e", "f", "i", "n", "i", "t", "i", "o", "n", "s">>,
    D(<<<<<<"U">>, D(<<<<<<"o", "n", "e", "O", "f">>, L(<<D(<<<<<<"$", "r",
    "e", "f">>, S(<<"#", "/", "d", "e", "f", "i", "n", "i", "t", "i", "o",
    "n", "s", "/", "B">>)>>>>), D(<<<<<<"$", "r", "e", "f">>, S(<<"#", "/",
    "d", "e", "f", "i", "n", "i", "t", "i", "o", "n", "s", "/",
    "C">>)>>>>)>>)>>>>)>>, <<<<"B">>, D(<<<<<<"t", "y", "p", "e">>, S(<<"o",
    "b", "j", "e", "c", "t">>)>>, <<<<"p", "r", "o", "p", "e", "r", "t", "i",
    "e", "s">>, D(<<<<<<"s">>, D(<<<<<<"t", "y", "p", "e">>, S(<<"s", "t",
    "r", "i", "n", "g">>)>>>>)>>>>)>>>>)>>, <<<<"C">>, D(<<<<<<"t", "y", "p",
    "e">>, S(<<"o", "b", "j", "e", "c", "t">>)>>, <<<<"p", "r", "o", "p", "e",
    "r", "t", "i", "e", "s">>, D(<<<<<<"t">>, D(<<<<<<"t", "y", "p", "e">>,
    S(<<"i", "n", "t", "e", "g", "e", "r">>)>>>>)>>>>)>>>>)>>>>)>>>>)

\* an object with anyOf branches that require a property
AnyOfDocument ==
    D(<<<<<<"t", "y", "p", "e">>, S(<<"o", "b", "j", "e", "c", "t">>)>>,
    <<<<"p", "r", "o", "p", "e", "r", "t", "i", "e", "s">>, D(<<<<<<"a">>,
    D(<<<<<<"t", "y", "p", "e">>, S(<<"s", "t", "r", "i", "n",
    "g">>)>>>>)>>>>)>>, <<<<"a", "n", "y", "O", "f">>, L(<<D(<<<<<<"r", "e",
    "q", "u", "i", "r", "e", "d">>, L(<<S(<<"a">>)>>)>>>>), D(<<<<<<"r", "e",
    "q", "u", "i", "r", "e", "d">>, L(<<S(<<"a">>)>>)>>>>)>>)>>>>)

\* allOf of two typed fragments
AllOfDocument ==
    D(<<<<<<"a", "l", "l", "O", "f">>, L(<<D(<<<<<<"t", "y", "p", "e">>,
    S(<<"o", "b", "j", "e", "c", "t">>)>>, <<<<"p", "r", "o", "p", "e", "r",
    "t", "i", "e", "s">>, D(<<<<<<"a">>, D(<<<<<<"t", "y", "p", "e">>,
    S(<<"s", "t", "r", "i", "n", "g">>)>>>>)>>>>)>>, <<<<"r", "e", "q", "u",
    "i", "r", "e", "d">>, L(<<S(<<"a">>)>>)>>>>), D(<<<<<<"t", "y", "p",
    "e">>, S(<<"o", "b", "j", "e", "c", "t">>)>>, <<<<"p", "r", "o", "p", "e",
    "r", "t", "i", "e", "s">>, D(<<<<<<"b">>, D(<<<<<<"t", "y", "p", "e">>,
    S(<<"i", "n", "t", "e", "g", "e", "r">>)>>>>)>>>>)>>>>)>>)>>>>)

\* allOf of two untyped fragments that both have `properties`
AllOfCollisionDocument ==
    D(<<<<<<"a", "l", "l", "O", "f">>, L(<<D(<<<<<<"p", "r", "o", "p", "e",
    "r", "t", "i", "e", "s">>, D(<<<<<<"a">>, D(<<<<<<"t", "y", "p", "e">>,
    S(<<"s", "t", "r", "i", "n", "g">>)>>>>)>>>>)>>>>), D(<<<<<<"p", "r", "o",
    "p", "e", "r", "t", "i", "e", "s">>, D(<<<<<<"b">>, D(<<<<<<"t", "y", "p",
    "e">>, S(<<"i", "n", "t", "e", "g", "e", "r">>)>>>>)>>>>)>>>>)>>)>>>>)

\* an enum property
EnumDocument ==
    D(<<<<<<"t", "y", "p", "e">>, S(<<"o", "b", "j", "e", "c", "t">>)>>,
    <<<<"p", "r", "o", "p", "e", "r", "t", "i", "e", "s">>, D(<<<<<<"c", "o",
    "l", "o", "r">>, D(<<<<<<"t", "y", "p", "e">>, S(<<"s", "t", "r", "i",
    "n", "g">>)>>, <<<<"e", "n", "u", "m">>, L(<<S(<<"A">>), S(<<"B">>),
    S(<<"A">>)>>)>>>>)>>>>)>>>>)

\* a `$ref` whose pointer is not in the document
MissingPointerDocument ==
    D(<<<<<<"t", "y", "p", "e">>, S(<<"o", "b", "j", "e", "c", "t">>)>>,
    <<<<"p", "r", "o", "p", "e", "r", "t", "i", "e", "s">>, D(<<<<<<"m">>,
    D(<<<<<<"$", "r", "e", "f">>, S(<<"#", "/", "d", "e", "f", "i", "n", "i",
    "t", "i", "o", "n", "s", "/", "M", "i", "s", "s", "i", "n",
    "g">>)>>>>)>>>>)>>, <<<<"d", "e", "f", "i", "n", "i", "t", "i", "o", "n",
    "s">>, D(<<<<<<"B">>, D(<<<<<<"t", "y", "p", "e">>, S(<<"o", "b", "j",
    "e", "c", "t">>)>>, <<<<"p", "r", "o", "p", "e", "r", "t", "i", "e",
    "s">>, D(<<<<<<"s">>, D(<<<<<<"t", "y", "p", "e">>, S(<<"s", "t", "r",
    "i", "n", "g">>)>>>>)>>>>)>>>>)>>>>)>>>>)

\* a `$ref` to an empty schema
RefToEmptyDocument ==
    D(<<<<<<"t", "y", "p", "e">>, S(<<"o", "b", "j", "e", "c", "t">>)>>,
    <<<<"p", "r", "o", "p", "e", "r", "t", "i", "e", "s">>, D(<<<<<<"e">>,
    D(<<<<<<"$", "r", "e", "f">>, S(<<"#", "/", "d", "e", "f", "i", "n", "i",
    "t", "i", "o", "n", "s", "/", "E">>)>>>>)>>>>)>>, <<<<"d", "e", "f", "i",
    "n", "i", "t", "i", "o", "n", "s">>, D(<<<<<<"E">>, D(<<>>)>>>>)>>>>)

\* a `$ref` to a primitive schema, used twice
RefToStringDocument ==
    D(<<<<<<"t", "y", "p", "e">>, S(<<"o", "b", "j", "e", "c", "t">>)>>,
    <<<<"p", "r", "o", "p", "e", "r", "t", "i", "e", "s">>, D(<<<<<<"s">>,
    D(<<<<<<"$", "r", "e", "f">>, S(<<"#", "/", "d", "e", "f", "i", "n", "i",
    "t", "i", "o", "n", "s", "/", "S">>)>>>>)>>, <<<<"t">>, D(<<<<<<"$", "r",
    "e", "f">>, S(<<"#", "/", "d", "e", "f", "i", "n", "i", "t", "i", "o",
    "n", "s", "/", "S">>)>>>>)>>>>)>>, <<<<"d", "e", "f", "i", "n", "i", "t",
    "i", "o", "n", "s">>, D(<<<<<<"S">>, D(<<<<<<"t", "y", "p", "e">>,
    S(<<"s", "t", "r", "i", "n", "g">>)>>>>)>>>>)>>>>)

\* an object with `if`/`then`
ConditionalDocument ==
    D(<<<<<<"t", "y", "p", "e">>, S(<<"o", "b", "j", "e", "c", "t">>)>>,
    <<<<"p", "r", "o", "p", "e", "r", "t", "i", "e", "s">>, D(<<<<<<"a">>,
    D(<<<<<<"t", "y", "p", "e">>, S(<<"s", "t", "r", "i", "n", "g">>)>>,
    <<<<"i", "f">>, D(<<>>)>>>>)>>, <<<<"p">>, D(<<<<<<"p", "r", "o", "p",
    "e", "r", "t", "i", "e", "s">>, D(<<<<<<"q">>, D(<<<<<<"t", "y", "p",
    "e">>, S(<<"s", "t", "r", "i", "n", "g">>)>>>>)>>>>)>>>>)>>>>)>>, <<<<"i",
    "f">>, D(<<<<<<"r", "e", "q", "u", "i", "r", "e", "d">>,
    L(<<S(<<"a">>)>>)>>>>)>>, <<<<"t", "h", "e", "n">>, D(<<<<<<"r", "e", "q",
    "u", "i", "r", "e", "d">>, L(<<S(<<"p">>)>>)>>>>)>>>>)

\* a nested object property named like the record around it
NestedSameNameDocument ==
    D(<<<<<<"t", "y", "p", "e">>, S(<<"o", "b", "j", "e", "c", "t">>)>>,
    <<<<"p", "r", "o", "p", "e", "r", "t", "i", "e", "s">>, D(<<<<<<"r", "e",
    "c", "o", "r", "d">>, D(<<<<<<"t", "y", "p", "e">>, S(<<"o", "b", "j",
    "e", "c", "t">>)>>, <<<<"p", "r", "o", "p", "e", "r", "t", "i", "e",
    "s">>, D(<<<<<<"r", "e", "c", "o", "r", "d">>, D(<<<<<<"t", "y", "p",
    "e">>, S(<<"o", "b", "j", "e", "c", "t">>)>>, <<<<"p", "r", "o", "p", "e",
    "r", "t", "i", "e", "s">>, D(<<<<<<"s">>, D(<<<<<<"t", "y", "p", "e">>,
    S(<<"s", "t", "r", "i", "n", "g">>)>>>>)>>>>)>>>>)>>>>)>>>>)>>>>)>>>>)

\* additionalProperties and patternProperties
MapFieldsDocument ==
    D(<<<<<<"d", "e", "f", "i", "n", "i", "t", "i", "o", "n", "s">>,
    D(<<<<<<"M">>, D(<<<<<<"t", "y", "p", "e">>, S(<<"o", "b", "j", "e", "c",
    "t">>)>>, <<<<"p", "r", "o", "p", "e", "r", "t", "i", "e", "s">>,
    D(<<<<<<"x">>, D(<<<<<<"t", "y", "p", "e">>, S(<<"s", "t", "r", "i", "n",
    "g">>)>>>>)>>>>)>>, <<<<"a", "d", "d", "i", "t", "i", "o", "n", "a", "l",
    "P", "r", "o", "p", "e", "r", "t", "i", "e", "s">>, D(<<<<<<"t", "y", "p",
    "e">>, S(<<"i", "n", "t", "e", "g", "e", "r">>)>>>>)>>>>)>>, <<<<"P">>,
    D(<<<<<<"t", "y", "p", "e">>, S(<<"o", "b", "j", "e", "c", "t">>)>>,
    <<<<"p", "r", "o", "p", "e", "r", "t", "i", "e", "s">>, D(<<<<<<"x">>,
    D(<<<<<<"t", "y", "p", "e">>, S(<<"s", "t", "r", "i", "n", "g">>)>>>>)>>,
    <<<<"y">>, D(<<<<<<"t", "y", "p", "e">>, S(<<"s", "t", "r", "i", "n",
    "g">>)>>>>)>>>>)>>, <<<<"p", "a", "t", "t", "e", "r", "n", "P", "r", "o",
    "p", "e", "r", "t", "i", "e", "s">>, D(<<<<<<"^", "e", "x", "t", "-">>,
    D(<<<<<<"t", "y", "p", "e">>, S(<<"i", "n", "t", "e", "g", "e",
    "r">>)>>>>)>>>>)>>>>)>>, <<<<"Q">>, D(<<<<<<"t", "y", "p", "e">>, S(<<"o",
    "b", "j", "e", "c", "t">>)>>, <<<<"a", "d", "d", "i", "t", "i", "o", "n",
    "a", "l", "P", "r", "o", "p", "e", "r", "t", "i", "e", "s">>,
    B(TRUE)>>>>)>>, <<<<"R">>, D(<<<<<<"t", "y", "p", "e">>, S(<<"o", "b",
    "j", "e", "c", "t">>)>>, <<<<"p", "a", "t", "t", "e", "r", "n", "P", "r",
    "o", "p", "e", "r", "t", "i", "e", "s">>, D(<<<<<<>>, D(<<<<<<"t", "y",
    "p", "e">>, S(<<"s", "t", "r", "i", "n", "g">>)>>>>)>>>>)>>>>)>>>>)>>>>)

\* a property whose type is not a JSON Schema primitive
UnknownTypeDocument ==
    D(<<<<<<"t", "y", "p", "e">>, S(<<"o", "b", "j", "e", "c", "t">>)>>,
    <<<<"p", "r", "o", "p", "e", "r", "t", "i", "e", "s">>, D(<<<<<<"f">>,
    D(<<<<<<"t", "y", "p", "e">>, S(<<"f", "o", "o">>)>>>>)>>, <<<<"g">>,
    D(<<<<<<"t", "y", "p", "e">>, S(<<"s", "t", "r", "i", "n", "g">>)>>,
    <<<<"f", "o", "r", "m", "a", "t">>, S(<<"d", "a", "t", "e", "-", "t", "i",
    "m", "e">>)>>, <<<<"d", "e", "s", "c", "r", "i", "p", "t", "i", "o",
    "n">>, S(<<"w", "h", "e", "n">>)>>>>)>>>>)>>, <<<<"r", "e", "q", "u", "i",
    "r", "e", "d">>, L(<<S(<<"f">>)>>)>>, <<<<"d", "e", "s", "c", "r", "i",
    "p", "t", "i", "o", "n">>, S(<<"d", "o", "c">>)>>>>)

\* a `$ref`, used twice, to a composition that converts to no type
RefToUntypedDocument ==
    D(<<<<<<"t", "y", "p", "e">>, S(<<"o", "b", "j", "e", "c", "t">>)>>,
    <<<<"p", "r", "o", "p", "e", "r", "t", "i", "e", "s">>, D(<<<<<<"p">>,
    D(<<<<<<"$", "r", "e", "f">>, S(<<"#", "/", "d", "e", "f", "i", "n", "i",
    "t", "i", "o", "n", "s", "/", "B">>)>>>>)>>, <<<<"q">>, D(<<<<<<"$", "r",
    "e", "f">>, S(<<"#", "/", "d", "e", "f", "i", "n", "i", "t", "i", "o",
    "n", "s", "/", "B">>)>>>>)>>>>)>>, <<<<"d", "e", "f", "i", "n", "i", "t",
    "i", "o", "n", "s">>, D(<<<<<<"B">>, D(<<<<<<"a", "l", "l", "O", "f">>,
    L(<<D(<<<<<<"d", "e", "s", "c", "r", "i", "p", "t", "i", "o", "n">>,
    S(<<"x">>)>>>>)>>)>>>>)>>>>)>>>>)

\* a `$ref`, used twice, to a composition that converts to a primitive
RefToAllOfStringDocument ==
    D(<<<<<<"t", "y", "p", "e">>, S(<<"o", "b", "j", "e", "c", "t">>)>>,
    <<<<"p", "r", "o", "p", "e", "r", "t", "i", "e", "s">>, D(<<<<<<"p">>,
    D(<<<<<<"$", "r", "e", "f">>, S(<<"#", "/", "d", "e", "f", "i", "n", "i",
    "t", "i", "o", "n", "s", "/", "B">>)>>>>)>>, <<<<"q">>, D(<<<<<<"$", "r",
    "e", "f">>, S(<<"#", "/", "d", "e", "f", "i", "n", "i", "t", "i", "o",
    "n", "s", "/", "B">>)>>>>)>>>>)>>, <<<<"d", "e", "f", "i", "n", "i", "t",
    "i", "o", "n", "s">>, D(<<<<<<"B">>, D(<<<<<<"a", "l", "l", "O", "f">>,
    L(<<D(<<<<<<"t", "y", "p", "e">>, S(<<"s", "t", "r", "i", "n",
    "g">>)>>>>)>>)>>>>)>>>>)>>>>)

\* a definition that is a `$ref` next to `if`
ConditionalDefinitionDocument ==
    D(<<<<<<"d", "e", "f", "i", "n", "i", "t", "i", "o", "n", "s">>,
    D(<<<<<<"A">>, D(<<<<<<"$", "r", "e", "f">>, S(<<"#", "/", "d", "e", "f",
    "i", "n", "i", "t", "i", "o", "n", "s", "/", "N", "o", "d", "e">>)>>,
    <<<<"i", "f">>, D(<<<<<<"a">>, L(<<S(<<"b">>)>>)>>>>)>>>>)>>, <<<<"N",
    "o", "d", "e">>, D(<<<<<<"t", "y", "p", "e">>, S(<<"s", "t", "r", "i",
    "n", "g">>)>>>>)>>>>)>>>>)

\* two patterns whose names are the same once sanitized
CollidingPatternsDocument ==
    D(<<<<<<"d", "e", "f", "i", "n", "i", "t", "i", "o", "n", "s">>,
    D(<<<<<<"R">>, D(<<<<<<"t", "y", "p", "e">>, S(<<"o", "b", "j", "e", "c",
    "t">>)>>, <<<<"p", "a", "t", "t", "e", "r", "n", "P", "r", "o", "p", "e",
    "r", "t", "i", "e", "s">>, D(<<<<<<"a", "-", "b">>, D(<<<<<<"t", "y", "p",
    "e">>, S(<<"s", "t", "r", "i", "n", "g">>)>>>>)>>, <<<<"a", "_", "b">>,
    D(<<<<<<"t", "y", "p", "e">>, S(<<"i", "n", "t", "e", "g", "e",
    "r">>)>>>>)>>>>)>>>>)>>>>)>>>>)

\* two definitions that are a `$ref` to each other and nothing else
RefChainDocument ==
    D(<<<<<<"t", "y", "p", "e">>, S(<<"o", "b", "j", "e", "c", "t">>)>>,
    <<<<"p", "r", "o", "p", "e", "r", "t", "i", "e", "s">>, D(<<<<<<"p">>,
    D(<<<<<<"$", "r", "e", "f">>, S(<<"#", "/", "d", "e", "f", "i", "n", "i",
    "t", "i", "o", "n", "s", "/", "A">>)>>>>)>>>>)>>, <<<<"d", "e", "f", "i",
    "n", "i", "t", "i", "o", "n", "s">>, D(<<<<<<"A">>, D(<<<<<<"$", "r", "e",
    "f">>, S(<<"#", "/", "d", "e", "f", "i", "n", "i", "t", "i", "o", "n",
    "s", "/", "B">>)>>>>)>>, <<<<"B">>, D(<<<<<<"$", "r", "e", "f">>, S(<<"#",
    "/", "d", "e", "f", "i", "n", "i", "t", "i", "o", "n", "s", "/",
    "A">>)>>>>)>>>>)>>>>)

Documents ==
    << OptionalFieldDocument,
       RequiredFieldDocument,
       NullableRefDocument,
       RefTwiceDocument,
       SwaggerRefTwiceDocument,
       CyclicNodeDocument,
       SelfRefRootDocument,
       MutualRefsDocument,
       TypedSelfRefDocument,
       CollidingNamesDocument,
       GroupedDefinitionsDocument,
       BareListDocument,
       NoSchemaDocument,
       NoDefinitionsDocument,
       OneOfFieldDocument,
       OneOfRefsDocument,
       AnyOfDocument,
       AllOfDocument,
       AllOfCollisionDocument,
       EnumDocument,
       MissingPointerDocument,
       RefToEmptyDocument,
       RefToStringDocument,
       ConditionalDocument,
       NestedSameNameDocument,
       MapFieldsDocument,
       UnknownTypeDocument,
       RefToUntypedDocument,
       RefToAllOfStringDocument,
       ConditionalDefinitionDocument,
       CollidingPatternsDocument,
       RefChainDocument >>


(***************************************************************************)
(* jsons_to_avro as a state machine: one step for the dispatch of lines    *)
(* 748-763, one for every call of process_definition and of                *)
(* process_definition_list, one for the sort and the return                *)
(***************************************************************************)
Init ==
    /\ \E i \in 1..Len(Documents) : input = WithIds(Documents[i], << >>)
    /\ doc = input
    /\ root_namespace \in {s_example_com, Namespace}
    /\ imported_types = EmptyDict
    /\ avro_schema = << >>
    /\ record_stack = << >>
    /\ queue = << >>
    /\ pc = "start"
    /\ result = None
    /\ emitted = << >>
    /\ args = None
    /\ hashseed \in {0, 1}
    /\ content = None
    /\ avro_file = None
    /\ resolutions = << >>

\* lines 748-763: which of the three branches, or the ValueError
Started(d) ==
    /\ queue' = d.q
    /\ pc' = IF d.err # "" THEN "raised" ELSE "run"
    /\ result' = IF d.err # "" THEN Exc(d.err) ELSE result
Start ==
    /\ pc = "start"
    /\ Started(Dispatch(doc))
    /\ UNCHANGED <<input, doc, root_namespace, imported_types, avro_schema,
                   record_stack, emitted, args, hashseed, content, avro_file,
                   resolutions>>

\* lines 750, 756 and 784: process_definition on the schema at the head
ProcessDefinition ==
    /\ pc = "run"
    /\ queue # << >>
    /\ HeadIsDefinition(queue[1], Deref(doc, queue[1].schema))
    /\ Becomes(process_definition(Ctx, Namespace, queue[1].name,
                                  Deref(doc, queue[1].schema)))
    /\ queue' = Tail(queue)
    /\ UNCHANGED <<input, root_namespace, args, hashseed, content, avro_file>>

\* lines 758, 760 and 786: process_definition_list on the entry at the head;
\* the entries of the list are processed before the rest of the queue
Expanded(entries) ==
    /\ queue' = entries.q \o Tail(queue)
    /\ pc' = IF entries.err # "" THEN "raised" ELSE pc
    /\ result' = IF entries.err # "" THEN Exc(entries.err) ELSE result
ProcessDefinitionList ==
    /\ pc = "run"
    /\ queue # << >>
    /\ ~HeadIsDefinition(queue[1], Deref(doc, queue[1].schema))
    /\ Expanded(process_definition_list(queue[1], Deref(doc, queue[1].schema)))
    /\ UNCHANGED <<input, doc, root_namespace, imported_types, avro_schema,
                   record_stack, emitted, args, hashseed, content, avro_file,
                   resolutions>>

\* lines 765-777: the registry is sorted and returned
Yields(sorted) ==
    /\ avro_schema' = sorted
    /\ result' = L(sorted)
Return ==
    /\ pc = "run"
    /\ queue = << >>
    /\ Yields(sort_messages_by_dependencies(avro_schema))
    /\ pc' = "returned"
    /\ UNCHANGED <<input, doc, root_namespace, imported_types, record_stack,
                   queue, emitted, args, hashseed, content, avro_file,
                   resolutions>>

Next ==
    \/ Start
    \/ ProcessDefinition
    \/ ProcessDefinitionList
    \/ Return

Spec == Init /\ [][Next]_vars


(***************************************************************************)
(* Properties of jsons_to_avro, checked under Spec                         *)
(***************************************************************************)
\* is null a branch of the union `type`
HasNullBranch(type) == IsList(type) /\ InList(S(s_null), type)
\* does the schema of a property name null itself
MentionsNull(schema) ==
    /\ IsDict(schema) /\ Has(schema, s_type)
    /\ PyInOk(Get(schema, s_type)) /\ PyIn(s_null, Get(schema, s_type))
\* is `input` a single object schema with properties and no composition
IsObjectSchema(schema) ==
    /\ IsDict(schema) /\ StrIs(GetOr(schema, s_type, None), s_object)
    /\ IsDict(GetOr(schema, s_properties, None))
    /\ ~Has(schema, s_allOf) /\ ~Has(schema, s_oneOf) /\ ~Has(schema, s_anyOf)
\* is the entry of the registry the record made of the single schema `input`
IsRootRecord(item) ==
    /\ StrIs(GetOr(item, s_name, None), s_record)
    /\ StrIs(GetOr(item, s_namespace, None), Namespace)
    /\ IsList(GetOr(item, s_fields, None))
\* the field of a property has a null branch unless the property is required,
\* and a required property gets no null that its schema does not name
FieldFollowsRequired(field, key, schema, required) ==
    StrIs(GetOr(field, s_name, None), avro_name(key)) =>
        IF PyIn(key, required)
        THEN MentionsNull(schema) \/ ~HasNullBranch(Get(field, s_type))
        ELSE HasNullBranch(Get(field, s_type))

\* C1: in the record of an object schema every property that is not listed
\* in `required` has a field type with null as a union branch, and a property
\* that is listed in `required` has no null added
C1_OptionalPropertiesAreNullable ==
    (pc = "returned" /\ IsObjectSchema(input)) =>
        \A i \in 1..Len(avro_schema) :
            IsRootRecord(avro_schema[i]) =>
                \A j \in 1..Len(Get(avro_schema[i], s_fields).v),
                   p \in 1..Len(Get(input, s_properties).v) :
                    FieldFollowsRequired(
                        Get(avro_schema[i], s_fields).v[j],
                        Get(input, s_properties).v[p][1],
                        Get(input, s_properties).v[p][2],
                        GetOr(input, s_required, L(<< >>)))

\* C2: when a run has returned, the registry holds one entry only for a
\* schema that a `$ref` was resolved to: no second entry was built of the
\* target of a reference
C2_OneEntryPerReferenceTarget ==
    pc = "returned" =>
        \A i, j \in 1..Len(emitted) :
            (/\ emitted[i].by = "ref" /\ emitted[i].target # NoId
             /\ emitted[j].target = emitted[i].target) => i = j

\* the documents in which a record has a field that refers back to it
SelfReferentialDocuments ==
    { WithIds(CyclicNodeDocument, << >>), WithIds(SelfRefRootDocument, << >>),
      WithIds(MutualRefsDocument, << >>), WithIds(TypedSelfRefDocument, << >>) }

\* C3: jsons_to_avro returns a schema for every document in which a record
\* has a field that refers back to it; it does not end in unbounded recursion
C3_SelfReferenceTerminates ==
    input \in SelfReferentialDocuments => pc # "raised"

s_Node == <<"N", "o", "d", "e">>
\* is there an entry of the registry with this name
HasRecordNamed(reg, name) ==
    \E i \in 1..Len(reg) :
        /\ StrIs(GetOr(reg[i], s_name, None), name)
        /\ StrIs(GetOr(reg[i], s_type, None), s_record)
\* is there the wrapper `<name>_ref` with the one field `name` of type `name`
HasRefWrapper(reg, name) ==
    \E i \in 1..Len(reg) :
        /\ StrIs(GetOr(reg[i], s_name, None), avro_name(name \o s_suffix_ref))
        /\ IsList(GetOr(reg[i], s_fields, None))
        /\ Len(Get(reg[i], s_fields).v) = 1
        /\ StrIs(GetOr(Get(reg[i], s_fields).v[1], s_name, None), name)
        /\ StrIs(GetOr(Get(reg[i], s_fields).v[1], s_type, None), name)

\* C4: the output for the cyclic document holds the record Node and the
\* wrapper record Node_ref with the single field Node of type Node
C4_CyclicNodeHasRefWrapper ==
    (pc = "returned" /\ input = WithIds(CyclicNodeDocument, << >>)) =>
        /\ HasRecordNamed(avro_schema, s_Node)
        /\ HasRefWrapper(avro_schema, s_Node)

\* C5: in every state of a run no two entries of the registry have the same
\* name and namespace
C5_RegistryNamesUnique ==
    \A i, j \in 1..Len(avro_schema) :
        (/\ JEq(GetOr(avro_schema[i], s_name, None),
                GetOr(avro_schema[j], s_name, None))
         /\ JEq(GetOr(avro_schema[i], s_namespace, None),
                GetOr(avro_schema[j], s_namespace, None))) => i = j
\* two definitions with the same sanitized name were processed and the
\* registry holds one of them
C5_DuplicateSuppressed ==
    /\ pc = "returned" /\ input = WithIds(CollidingNamesDocument, << >>)
    /\ Len(avro_schema) = 1


(***************************************************************************)
(* Single calls of json_schema_primitive_to_avro_type, merge_avro_schemas, *)
(* merge_json_schemas and json_type_to_avro_type on bounded families of    *)
(* arguments: `args` holds the arguments, `result` the outcome             *)
(***************************************************************************)
s_foo == <<"f", "o", "o">>
s_email == <<"e", "m", "a", "i", "l">>
s_color == <<"c", "o", "l", "o", "r">>
s_u == <<"u">>
s_R == <<"R">>

\* the longest enum list
MaxEnumLen == 3
\* the most fields of an Avro fragment
MaxFields == 2
\* the most fragments merged into a base by merge_json_schemas
MaxBranches == 2
\* the most branches of a `oneOf`
MaxOptions == 2

\* the fields of the Avro fragments handed to merge_avro_schemas
FieldPool ==
    << D(<<<<<<"n", "a", "m", "e">>, S(<<"a">>)>>, <<<<"t", "y", "p", "e">>,
      S(<<"s", "t", "r", "i", "n", "g">>)>>>>),
      D(<<<<<<"n", "a", "m", "e">>, S(<<"a">>)>>, <<<<"t", "y", "p", "e">>,
      S(<<"i", "n", "t">>)>>, <<<<"d", "o", "c">>, S(<<"x">>)>>>>),
      D(<<<<<<"n", "a", "m", "e">>, S(<<"a">>)>>, <<<<"t", "y", "p", "e">>,
      S(<<"s", "t", "r", "i", "n", "g">>)>>, <<<<"d", "o", "c">>,
      S(<<"y">>)>>>>),
      D(<<<<<<"n", "a", "m", "e">>, S(<<"b">>)>>, <<<<"t", "y", "p", "e">>,
      S(<<"s", "t", "r", "i", "n", "g">>)>>>>) >>

\* the JSON fragments handed to merge_json_schemas
JsonPool ==
    << D(<<>>),
      D(<<<<<<"r", "e", "q", "u", "i", "r", "e", "d">>,
      L(<<S(<<"a">>)>>)>>>>),
      D(<<<<<<"r", "e", "q", "u", "i", "r", "e", "d">>, L(<<S(<<"a">>),
      S(<<"b">>)>>)>>, <<<<"d", "e", "s", "c", "r", "i", "p", "t", "i", "o",
      "n">>, S(<<"d">>)>>>>),
      D(<<<<<<"p", "r", "o", "p", "e", "r", "t", "i", "e", "s">>,
      D(<<<<<<"a">>, D(<<<<<<"t", "y", "p", "e">>, S(<<"s", "t", "r", "i",
      "n", "g">>)>>>>)>>>>)>>, <<<<"d", "e", "s", "c", "r", "i", "p", "t",
      "i", "o", "n">>, S(<<"e">>)>>>>),
      D(<<<<<<"p", "r", "o", "p", "e", "r", "t", "i", "e", "s">>,
      D(<<<<<<"b">>, D(<<<<<<"t", "y", "p", "e">>, S(<<"i", "n", "t", "e",
      "g", "e", "r">>)>>>>)>>>>)>>, <<<<"r", "e", "q", "u", "i", "r", "e",
      "d">>, L(<<S(<<"b">>)>>)>>>>),
      D(<<<<<<"t", "y", "p", "e">>, S(<<"o", "b", "j", "e", "c", "t">>)>>,
      <<<<"p", "r", "o", "p", "e", "r", "t", "i", "e", "s">>, D(<<<<<<"a">>,
      D(<<<<<<"t", "y", "p", "e">>, S(<<"s", "t", "r", "i", "n",
      "g">>)>>>>)>>>>)>>, <<<<"r", "e", "q", "u", "i", "r", "e", "d">>,
      L(<<S(<<"a">>)>>)>>>>),
      D(<<<<<<"t", "y", "p", "e">>, S(<<"o", "b", "j", "e", "c", "t">>)>>,
      <<<<"p", "r", "o", "p", "e", "r", "t", "i", "e", "s">>, D(<<<<<<"b">>,
      D(<<<<<<"t", "y", "p", "e">>, S(<<"i", "n", "t", "e", "g", "e",
      "r">>)>>>>)>>>>)>>, <<<<"r", "e", "q", "u", "i", "r", "e", "d">>,
      L(<<S(<<"a">>), S(<<"b">>)>>)>>>>) >>

\* the branches of the `oneOf` nodes handed to json_type_to_avro_type
OptionPool ==
    << D(<<<<<<"t", "y", "p", "e">>, S(<<"s", "t", "r", "i", "n", "g">>)>>>>),
      D(<<<<<<"t", "y", "p", "e">>, S(<<"i", "n", "t", "e", "g", "e",
      "r">>)>>>>),
      D(<<<<<<"t", "y", "p", "e">>, L(<<S(<<"s", "t", "r", "i", "n", "g">>),
      S(<<"n", "u", "l", "l">>)>>)>>>>),
      D(<<>>),
      D(<<<<<<"t", "y", "p", "e">>, S(<<"o", "b", "j", "e", "c", "t">>)>>,
      <<<<"p", "r", "o", "p", "e", "r", "t", "i", "e", "s">>, D(<<<<<<"s">>,
      D(<<<<<<"t", "y", "p", "e">>, S(<<"s", "t", "r", "i", "n",
      "g">>)>>>>)>>>>)>>>>),
      D(<<<<<<"d", "e", "s", "c", "r", "i", "p", "t", "i", "o", "n">>,
      S(<<"x">>)>>>>) >>

\* the keys of a `oneOf` node next to `oneOf`
BasePool ==
    << D(<<>>),
      D(<<<<<<"d", "e", "s", "c", "r", "i", "p", "t", "i", "o", "n">>,
      S(<<"d">>)>>>>) >>

\* the members of the enum lists
EnumMembers ==
    << S(<<"A">>),
      S(<<"a", " ", "b">>),
      S(<<"a", "_", "b">>),
      S(<<>>),
      I(1) >>

PrimitiveNames ==
    << S(s_string), S(s_integer), S(s_number), S(s_boolean), S(s_null), S(s_foo),
       L(<< S(s_string), S(s_null) >>) >>
Formats ==
    << None, S(s_date_time), S(s_date), S(s_time), S(s_duration), S(s_uuid),
       S(s_email) >>
\* the primitive names and the formats of the calls with an enum list
EnumPrimitives == << S(s_string), S(s_foo) >>
EnumFormats == << None, S(s_date) >>

\* the lists of lo to hi indexes into a pool of n, and the list they pick
Lists(n, lo, hi) == UNION { [1..k -> 1..n] : k \in lo..hi }
Pick(pool, indexes) == [i \in DOMAIN indexes |-> pool[indexes[i]]]

\* an Avro record fragment with these fields
Fragment(fields) ==
    D(<< <<s_type, S(s_record)>>, <<s_name, S(s_R)>>, <<s_fields, L(fields)>> >>)

\* the arguments of one call; what a function does not take is None, an
\* empty sequence or FALSE
Arguments(op, json_primitive, format, enum, schemas, intersect, json_type) ==
    [op |-> op, json_primitive |-> json_primitive, format |-> format,
     enum |-> enum, schemas |-> schemas, intersect |-> intersect,
     json_type |-> json_type]
PrimitiveCall ==
    \E p \in 1..Len(PrimitiveNames), f \in 1..Len(Formats) :
        args = Arguments("primitive", PrimitiveNames[p], Formats[f], None,
                         << >>, FALSE, None)
EnumCall ==
    \E p \in 1..Len(EnumPrimitives), f \in 1..Len(EnumFormats),
       e \in Lists(Len(EnumMembers), 0, MaxEnumLen) :
        args = Arguments("primitive", EnumPrimitives[p], EnumFormats[f],
                         L(Pick(EnumMembers, e)), << >>, FALSE, None)
MergeAvroCall ==
    \E f1, f2 \in Lists(Len(FieldPool), 0, MaxFields) :
        args = Arguments("merge_avro", None, None, None,
                         << Fragment(Pick(FieldPool, f1)),
                            Fragment(Pick(FieldPool, f2)) >>, FALSE, None)
MergeJsonCall ==
    \E base \in 1..Len(JsonPool), branches \in Lists(Len(JsonPool), 1, MaxBranches),
       i \in BOOLEAN :
        args = Arguments("merge_json", None, None, None,
                         << JsonPool[base] >> \o Pick(JsonPool, branches), i, None)
ConvertCall ==
    \E base \in 1..Len(BasePool), options \in Lists(Len(OptionPool), 1, MaxOptions) :
        args = Arguments("convert", None, None, None, << >>, FALSE,
                         Put(BasePool[base], s_oneOf, L(Pick(OptionPool, options))))

s_p == <<"p">>
s_B == <<"B">>
\* the references of the calls that resolve one: to a definition, to a key
\* and to an index that are not there, one without the leading slash, and
\* to a member of a list
RefPool ==
    << <<"#", "/", "d", "e", "f", "i", "n", "i", "t", "i", "o", "n", "s",
         "/", "B">>,
       <<"#", "/", "d", "e", "f", "i", "n", "i", "t", "i", "o", "n", "s",
         "/", "C">>,
       <<"#", "/", "d", "e", "f", "i", "n", "i", "t", "i", "o", "n", "s",
         "/", "B", "/", "p", "r", "o", "p", "e", "r", "t", "i", "e",
         "s", "/", "x">>,
       <<"#", "d", "e", "f", "i", "n", "i", "t", "i", "o", "n", "s", "/",
         "B">>,
       <<"#", "/", "d", "e", "f", "i", "n", "i", "t", "i", "o", "n", "s",
         "/", "B", "/", "r", "e", "q", "u", "i", "r", "e", "d", "/",
         "0">>,
       <<"#", "/", "d", "e", "f", "i", "n", "i", "t", "i", "o", "n", "s",
         "/", "B", "/", "r", "e", "q", "u", "i", "r", "e", "d", "/",
         "1">> >>
\* a node that refers, alone or with a description next to the reference
ReferringNode(ref, described) ==
    IF described
    THEN D(<< <<s_ref, S(ref)>>, <<s_description, S(<<"d">>)>> >>)
    ELSE D(<< <<s_ref, S(ref)>> >>)
\* an object schema with the node as its property `p` and the definition B
ReferenceDocument(node) ==
    D(<< <<s_type, S(s_object)>>,
         <<s_properties, D(<< <<s_p, node>> >>)>>,
         <<s_definitions,
           D(<< <<s_B, D(<< <<s_type, S(s_object)>>,
                            <<s_properties,
                              D(<< <<<<"s">>, D(<< <<s_type, S(s_string)>> >>)>> >>)>>,
                            <<s_required, L(<< S(<<"s">>) >>)>> >>)>> >>)>> >>)
\* the node and the reference of such a document
ReferringNodeOf(document) == Get(Get(document, s_properties), s_p)
RefOf(document) == Get(ReferringNodeOf(document), s_ref).v
ReferenceCall ==
    \E r \in 1..Len(RefPool), described \in BOOLEAN, op \in {"resolve", "reference"} :
        args = Arguments(op, None, None, None, << >>, FALSE,
                         ReferenceDocument(ReferringNode(RefPool[r], described)))

\* the object schemas handed to json_schema_object_to_avro_record are put
\* together of what they hold under `properties`, `additionalProperties`
\* and `patternProperties`; None stands for a key that is not there
PropertiesPool ==
    << None,
      D(<<<<<<"x">>, D(<<<<<<"t", "y", "p", "e">>, S(<<"s", "t", "r", "i",
      "n", "g">>)>>>>)>>>>),
      D(<<<<<<"a", "_", "b">>, D(<<<<<<"t", "y", "p", "e">>, S(<<"s", "t",
      "r", "i", "n", "g">>)>>>>)>>>>),
      D(<<<<<<"R">>, D(<<<<<<"t", "y", "p", "e">>, S(<<"s", "t", "r", "i",
      "n", "g">>)>>>>)>>>>) >>
AdditionalPool ==
    << None,
      B(TRUE),
      D(<<>>),
      D(<<<<<<"t", "y", "p", "e">>, S(<<"i", "n", "t", "e", "g", "e",
      "r">>)>>>>) >>
PatternPool ==
    << None,
      D(<<<<<<"^", "e", "x", "t", "-">>, D(<<<<<<"t", "y", "p", "e">>,
      S(<<"i", "n", "t", "e", "g", "e", "r">>)>>>>)>>>>),
      D(<<<<<<>>, D(<<<<<<"t", "y", "p", "e">>, S(<<"s", "t", "r", "i", "n",
      "g">>)>>>>)>>>>),
      D(<<<<<<"a", "-", "b">>, D(<<<<<<"t", "y", "p", "e">>, S(<<"s", "t",
      "r", "i", "n", "g">>)>>>>)>>, <<<<"a", "_", "b">>, D(<<<<<<"t", "y",
      "p", "e">>, S(<<"i", "n", "t", "e", "g", "e", "r">>)>>>>)>>>>),
      D(<<<<<<"p">>, D(<<>>)>>>>) >>
ObjectSchema(typed, properties, additional, patterns) ==
    D((IF typed THEN << <<s_type, S(s_object)>> >> ELSE << >>)
      \o (IF IsNone(properties) THEN << >>
          ELSE << <<s_properties, properties>> >>)
      \o (IF IsNone(additional) THEN << >>
          ELSE << <<s_additionalProperties, additional>> >>)
      \o (IF IsNone(patterns) THEN << >>
          ELSE << <<s_patternProperties, patterns>> >>))
RecordCall ==
    \E typed \in BOOLEAN, p \in 1..Len(PropertiesPool),
       a \in 1..Len(AdditionalPool), q \in 1..Len(PatternPool) :
        args = Arguments("record", None, None, None, << >>, FALSE,
                         ObjectSchema(typed, PropertiesPool[p], AdditionalPool[a],
                                      PatternPool[q]))

\* the branches of the objects with `allOf`, `oneOf` or `anyOf` handed to
\* json_schema_object_to_avro_record
BranchPool ==
    << D(<<>>),
      D(<<<<<<"d", "e", "s", "c", "r", "i", "p", "t", "i", "o", "n">>,
      S(<<"x">>)>>>>),
      D(<<<<<<"t", "y", "p", "e">>, S(<<"s", "t", "r", "i", "n", "g">>)>>>>),
      D(<<<<<<"t", "y", "p", "e">>, S(<<"o", "b", "j", "e", "c", "t">>)>>,
      <<<<"p", "r", "o", "p", "e", "r", "t", "i", "e", "s">>, D(<<<<<<"a">>,
      D(<<<<<<"t", "y", "p", "e">>, S(<<"s", "t", "r", "i", "n",
      "g">>)>>>>)>>>>)>>>>),
      D(<<<<<<"t", "y", "p", "e">>, S(<<"o", "b", "j", "e", "c", "t">>)>>,
      <<<<"p", "r", "o", "p", "e", "r", "t", "i", "e", "s">>, D(<<<<<<"b">>,
      D(<<<<<<"t", "y", "p", "e">>, S(<<"i", "n", "t", "e", "g", "e",
      "r">>)>>>>)>>>>)>>, <<<<"r", "e", "q", "u", "i", "r", "e", "d">>,
      L(<<S(<<"b">>)>>)>>>>),
      D(<<<<<<"t", "y", "p", "e">>, S(<<"a", "r", "r", "a", "y">>)>>, <<<<"i",
      "t", "e", "m", "s">>, D(<<<<<<"t", "y", "p", "e">>, S(<<"s", "t", "r",
      "i", "n", "g">>)>>>>)>>>>) >>
CompositionKeys == << s_allOf, s_oneOf, s_anyOf >>
ComposedCall ==
    \E k \in 1..Len(CompositionKeys),
       branches \in Lists(Len(BranchPool), 0, MaxBranches) :
        args = Arguments("record", None, None, None, << >>, FALSE,
                         D(<< <<CompositionKeys[k], L(Pick(BranchPool, branches))>> >>))

InitCall ==
    /\ \/ PrimitiveCall \/ EnumCall \/ MergeAvroCall \/ MergeJsonCall
       \/ ConvertCall \/ ReferenceCall \/ RecordCall \/ ComposedCall
    /\ input = args.json_type
    /\ doc = IF args.op \in {"convert", "reference", "resolve", "record"}
             THEN WithIds(args.json_type, << >>) ELSE None
    /\ root_namespace = s_example_com
    /\ imported_types = EmptyDict
    /\ avro_schema = << >>
    /\ record_stack = << >>
    /\ queue = << >>
    /\ pc = "call"
    /\ result = None
    /\ emitted = << >>
    /\ hashseed \in IF args.op = "merge_json" THEN {0, 1} ELSE {0}
    /\ content = None
    /\ avro_file = None
    /\ resolutions = << >>

\* the outcome of a call that changes no state of the converter
Outcome(r) ==
    /\ result' = r
    /\ pc' = "done"
    /\ UNCHANGED <<input, doc, root_namespace, imported_types, avro_schema,
                   record_stack, queue, emitted, args, hashseed, content,
                   avro_file,
                   resolutions>>

\* lines 163-210, with an empty list of dependencies
CallPrimitive ==
    /\ pc = "call" /\ args.op = "primitive"
    /\ Outcome(json_schema_primitive_to_avro_type(
                   args.json_primitive, args.format, args.enum, S(s_color), << >>))

\* lines 31-100, with an empty registry and no type name
CallMergeAvro ==
    /\ pc = "call" /\ args.op = "merge_avro"
    /\ Outcome(merge_avro_schemas(args.schemas, << >>, None))

\* lines 102-150
CallMergeJson ==
    /\ pc = "call" /\ args.op = "merge_json"
    /\ Outcome(merge_json_schemas(args.schemas, args.intersect))

\* the state and the outcome of a call of json_type_to_avro_type
Converted(r) ==
    /\ doc' = r.c.doc
    /\ imported_types' = r.c.imp
    /\ avro_schema' = r.c.reg
    /\ record_stack' = r.c.stk
    /\ emitted' = r.c.log
    /\ resolutions' = r.c.res
    /\ result' = IF Failed(r) THEN Exc(r.c.err) ELSE r.v
    /\ pc' = "done"
    /\ UNCHANGED <<input, root_namespace, queue, args, hashseed, content, avro_file>>

\* lines 295-522, for the field `u` of the record `record`
CallConvert ==
    /\ pc = "call" /\ args.op \in {"convert", "reference"}
    /\ Converted(json_type_to_avro_type(Ctx, doc, S(s_record), S(s_u),
                                        S(Namespace), << >>, 1))

\* lines 248-276, for the property `p` of the document
CallResolve ==
    /\ pc = "call" /\ args.op = "resolve"
    /\ Outcome(resolve_reference(ReferringNodeOf(doc), doc))

\* lines 526-730, for the record `R` and the object that is the document
CallRecord ==
    /\ pc = "call" /\ args.op = "record"
    /\ Converted(json_schema_object_to_avro_record(Ctx, S(s_R), doc, S(Namespace), 1))

NextCall ==
    \/ CallPrimitive
    \/ CallMergeAvro
    \/ CallMergeJson
    \/ CallConvert
    \/ CallResolve
    \/ CallRecord

SpecCall == InitCall /\ [][NextCall]_vars

(***************************************************************************)
(* The module-level convert_jsons_to_avro: the schema file is fetched and  *)
(* parsed, jsons_to_avro converts the document, the Avro schema file is    *)
(* written, and the handler of the function catches what was raised.       *)
(* pc is "fetch", "parse", then where jsons_to_avro is, then "written",    *)
(* "caught" or "escaped".                                                  *)
(***************************************************************************)
\* the text that json.dumps makes of a value and json.loads reads back
JsonText(value) == [k |-> "j", v |-> value]
s_Error_reading_file == <<"E", "r", "r", "o", "r", " ", "r", "e", "a", "d", "i", "n", "g", " ", "f", "i", "l", "e">>
s_not_json == <<"n", "o", "t", " ", "j", "s", "o", "n">>
\* what the schema file holds: the JSON text of a document, a text that is
\* not JSON, or nothing because it cannot be read
FileKinds == {"json", "text", "unreadable"}

\* lines 847-850: the call, with a namespace, of a converter just constructed
InitConvert ==
    /\ \E i \in 1..Len(Documents) : input = WithIds(Documents[i], << >>)
    /\ args \in [file : FileKinds, writable : BOOLEAN]
    /\ doc = None
    /\ root_namespace = s_example_com
    /\ imported_types = EmptyDict
    /\ avro_schema = << >>
    /\ record_stack = << >>
    /\ queue = << >>
    /\ pc = "fetch"
    /\ result = None
    /\ emitted = << >>
    /\ hashseed \in {0, 1}
    /\ content = None
    /\ avro_file = None
    /\ resolutions = << >>

\* lines 229-243: the text of the file, or the message of the error
fetch_content(file, document) ==
    CASE file = "json" -> JsonText(document)
      [] file = "text" -> S(s_not_json)
      [] OTHER -> S(s_Error_reading_file)
\* lines 819-823
Fetch ==
    /\ pc = "fetch"
    /\ content' = fetch_content(args.file, input)
    /\ pc' = "parse"
    /\ UNCHANGED <<input, doc, root_namespace, imported_types, avro_schema,
                   record_stack, queue, result, emitted, args, hashseed,
                   avro_file,
                   resolutions>>

\* line 824: json.loads, [v, err]
Loads(text) ==
    IF text.k = "j" THEN [v |-> text.v, err |-> ""]
    ELSE [v |-> None, err |-> "JSONDecodeError"]
\* lines 824-830: the document is parsed; the namespace of the call is not
\* empty and becomes the root namespace
Parsed(json_schema) ==
    /\ doc' = IF json_schema.err # "" THEN doc ELSE json_schema.v
    /\ root_namespace' = IF json_schema.err # "" THEN root_namespace ELSE Namespace
    /\ pc' = IF json_schema.err # "" THEN "raised" ELSE "start"
    /\ result' = IF json_schema.err # "" THEN Exc(json_schema.err) ELSE result
Parse ==
    /\ pc = "parse"
    /\ Parsed(Loads(content))
    /\ UNCHANGED <<input, imported_types, avro_schema, record_stack, queue,
                   emitted, args, hashseed, content, avro_file,
                   resolutions>>

\* lines 834-835: a list of one schema is replaced by the schema
Unwrapped(schemas) == IF Len(schemas) = 1 THEN schemas[1] ELSE L(schemas)
\* a file that is opened before its directory is made
FileWrittenAnyway(writable, schema) == JsonText(schema)
\* lines 838-843: the file after makedirs, open and json.dump; a path that
\* cannot be created or opened raises before the file exists
FileWritten(writable, schema) == IF writable THEN JsonText(schema) ELSE None
\* lines 833-844
Write ==
    /\ pc = "returned"
    /\ avro_file' = FileWritten(args.writable, Unwrapped(result.v))
    /\ result' = IF args.writable THEN Unwrapped(result.v) ELSE Exc("OSError")
    /\ pc' = IF args.writable THEN "written" ELSE "raised"
    /\ UNCHANGED <<input, doc, root_namespace, imported_types, avro_schema,
                   record_stack, queue, emitted, args, hashseed, content,
                   resolutions>>

\* the exceptions of the conversion, all of them subclasses of Exception
\* with a message as their first argument
ExceptionClasses ==
    {"Exception", "ValueError", "TypeError", "AttributeError", "UnboundLocalError",
     "RecursionError", "JSONDecodeError", "OSError"}
\* a handler that lets the RecursionError pass
CaughtButRecursion(e) == e \in ExceptionClasses \ {"RecursionError"}
\* line 852: does `except Exception` catch it
Caught(e) == e \in ExceptionClasses
\* lines 852-856: the handler prints the message and returns the empty list
Except ==
    /\ pc = "raised"
    /\ pc' = IF Caught(result.v) THEN "caught" ELSE "escaped"
    /\ result' = IF Caught(result.v) THEN L(<< >>) ELSE result
    /\ UNCHANGED <<input, doc, root_namespace, imported_types, avro_schema,
                   record_stack, queue, emitted, args, hashseed, content,
                   avro_file,
                   resolutions>>

NextConvert ==
    \/ Fetch
    \/ Parse
    \/ Start
    \/ ProcessDefinition
    \/ ProcessDefinitionList
    \/ Return
    \/ Write
    \/ Except

SpecConvert == InitConvert /\ [][NextConvert]_vars


(***************************************************************************)
(* Properties of the single calls, checked under SpecCall                  *)
(***************************************************************************)
\* the state in which the call of json_type_to_avro_type started
InitialCtx ==
    [doc |-> WithIds(args.json_type, << >>), imp |-> EmptyDict, reg |-> << >>,
     stk |-> << >>, log |-> << >>, res |-> << >>, root |-> root_namespace,
     err |-> ""]
\* the i-th of n branches of the node, combined with the keys of the node and
\* converted by itself
ConvertedAlternative(node, i, n) ==
    json_type_to_avro_type(
        InitialCtx, Overlay(BaseType(node), Get(node, s_oneOf).v[i]), S(s_record),
        IF n = 1 THEN S(s_u) ELSE S(avro_name(s_u \o s_underscore \o StrOfNat(i))),
        S(Namespace), << >>, 2).v
Alternatives(node) ==
    [i \in 1..Len(Get(node, s_oneOf).v) |->
        ConvertedAlternative(node, i, Len(Get(node, s_oneOf).v))]
\* the alternatives that are not empty
Kept(alts) == SelectSeq(alts, LAMBDA a : ~is_empty_type(a))
\* the alternatives in their order, the members of an alternative that is a
\* union in the place of the alternative
RECURSIVE Spliced(_)
Spliced(alts) ==
    IF alts = << >> THEN << >>
    ELSE (IF IsList(alts[1]) THEN alts[1].v ELSE << alts[1] >>)
         \o Spliced(Tail(alts))
\* the only alternative, with the generic type if it came out without a type
OnlyAlternative(alt) ==
    IF IsDict(alt) /\ is_empty_type(alt) THEN Put(alt, s_type, generic_type)
    ELSE alt
IsConverted == pc = "done" /\ args.op = "convert" /\ result.k # "x"

\* C6, as stated: of a `oneOf` node every branch is converted with the keys
\* of the node, the empty alternatives are dropped, one alternative that is
\* left is the result and several are the result as the sequence of the
\* alternatives
C6_OneOfYieldsItsAlternatives ==
    IsConverted =>
        /\ Len(Kept(Alternatives(WithIds(args.json_type, << >>)))) = 1 =>
              JEq(result, Kept(Alternatives(WithIds(args.json_type, << >>)))[1])
        /\ Len(Kept(Alternatives(WithIds(args.json_type, << >>)))) > 1 =>
              JEq(result, L(Kept(Alternatives(WithIds(args.json_type, << >>)))))

\* C6, amended: the result of several branches is the sequence of the
\* alternatives that are not empty with every alternative that is a union
\* replaced by its members, or its only member if there is one; a single
\* branch is the result itself, with the generic type if it has no type
C6_OneOfYieldsSplicedAlternatives ==
    IsConverted =>
        IF Len(Get(args.json_type, s_oneOf).v) = 1
        THEN JEq(result,
                 OnlyAlternative(Alternatives(WithIds(args.json_type, << >>))[1]))
        ELSE IF Len(Spliced(Kept(Alternatives(WithIds(args.json_type, << >>))))) = 1
        THEN JEq(result,
                 Spliced(Kept(Alternatives(WithIds(args.json_type, << >>))))[1])
        ELSE JEq(result,
                 L(Spliced(Kept(Alternatives(WithIds(args.json_type, << >>))))))
\* a branch that is a union of two was spliced into a union of three
C6_UnionBranchSpliced ==
    /\ IsConverted
    /\ Len(Get(args.json_type, s_oneOf).v) = 2
    /\ result = L(<< S(s_string), S(s_null), S(s_int) >>)

\* the names that a fragment lists as required
RequiredOf(schema) ==
    IF IsDict(schema) /\ Has(schema, s_required)
    THEN { Get(schema, s_required).v[i] : i \in 1..Len(Get(schema, s_required).v) }
    ELSE {}
\* C7: the `required` of the schema merged with intersect=True holds a name
\* exactly when every branch (every fragment after the base) lists it
C7_RequiredIsIntersectionOfBranches ==
    (pc = "done" /\ args.op = "merge_json" /\ args.intersect /\ result.err = "") =>
        RequiredOf(result.v) =
            { f \in RequiredOf(args.schemas[2]) :
                \A b \in 2..Len(args.schemas) : f \in RequiredOf(args.schemas[b]) }

\* the fields of a fragment, and whether their names differ
FieldsOf(schema) == Get(schema, s_fields).v
NamesDiffer(fields) ==
    \A i, j \in 1..Len(fields) :
        Get(fields[i], s_name) = Get(fields[j], s_name) => i = j
\* is the type the union of the two types, in one order or the other
IsUnionOf(type, t1, t2) == type = L(<< t1, t2 >>) \/ type = L(<< t2, t1 >>)
\* the doc of the first of the fields that has one
FirstDoc(f1, f2) ==
    IF Has(f1, s_doc) THEN Get(f1, s_doc) ELSE GetOr(f2, s_doc, None)
\* the merged fields have one field of the name of f1 and f2, with the union
\* of their types and the first doc
MergedAsOne(fields, f1, f2) ==
    \E i \in 1..Len(fields) :
        /\ Get(fields[i], s_name) = Get(f1, s_name)
        /\ \A j \in 1..Len(fields) :
              Get(fields[j], s_name) = Get(f1, s_name) => j = i
        /\ IsUnionOf(Get(fields[i], s_type), Get(f1, s_type), Get(f2, s_type))
        /\ GetOr(fields[i], s_doc, None) = FirstDoc(f1, f2)
\* C8: two fragments that declare a field of the same name with different
\* types merge into a schema with one field of that name, whose type is the
\* union of the two types and whose doc is the first one declared
C8_SameNameFieldsBecomeUnion ==
    (/\ pc = "done" /\ args.op = "merge_avro" /\ result.err = ""
     /\ NamesDiffer(FieldsOf(args.schemas[1]))
     /\ NamesDiffer(FieldsOf(args.schemas[2]))) =>
        \A i \in 1..Len(FieldsOf(args.schemas[1])),
           j \in 1..Len(FieldsOf(args.schemas[2])) :
            (/\ Get(FieldsOf(args.schemas[1])[i], s_name)
                  = Get(FieldsOf(args.schemas[2])[j], s_name)
             /\ Get(FieldsOf(args.schemas[1])[i], s_type)
                  # Get(FieldsOf(args.schemas[2])[j], s_type)) =>
                MergedAsOne(Get(result.v, s_fields).v,
                            FieldsOf(args.schemas[1])[i],
                            FieldsOf(args.schemas[2])[j])

\* the fragments that have the key
Having(schemas, key) == { i \in 1..Len(schemas) : Has(schemas[i], key) }
\* a mapping under `key` in two fragments or more is merged into a mapping
\* with the entries of all of them
MappingsMerged(merged, schemas, key) ==
    Cardinality(Having(schemas, key)) > 1 =>
        /\ IsDict(GetOr(merged, key, None))
        /\ \A i \in Having(schemas, key) :
              \A e \in 1..Len(Get(schemas[i], key).v) :
                  Has(Get(merged, key), Get(schemas[i], key).v[e][1])
\* a list under `key` in several fragments is merged into the list of the
\* members of all of them
ListsUnioned(merged, schemas, key) ==
    Cardinality(Having(schemas, key)) > 1 =>
        /\ IsList(GetOr(merged, key, None))
        /\ \A i \in Having(schemas, key) :
              \A e \in 1..Len(Get(schemas[i], key).v) :
                  InList(Get(schemas[i], key).v[e], Get(merged, key))
\* a scalar under `key` in two fragments is merged into the list of the two
ScalarsPaired(merged, schemas, key) ==
    Cardinality(Having(schemas, key)) = 2 =>
        \E i, j \in Having(schemas, key) :
            /\ i < j
            /\ GetOr(merged, key, None)
                 = L(<< Get(schemas[i], key), Get(schemas[j], key) >>)
\* C9: merge_json_schemas keeps the content of the fragments that collide on
\* a key: a mapping has the entries of all, lists are unioned, two scalars
\* become the list of the two
C9_CollidingKeysKeepBoth ==
    (pc = "done" /\ args.op = "merge_json" /\ ~args.intersect /\ result.err = "") =>
        /\ MappingsMerged(result.v, args.schemas, s_properties)
        /\ ListsUnioned(result.v, args.schemas, s_required)
        /\ ScalarsPaired(result.v, args.schemas, s_description)

\* is the symbol the sanitized name of the member of an enum list
IsSymbolOf(symbol, member) ==
    IsStr(member) /\ member.v # << >> /\ symbol = S(avro_name(member.v))
\* the place of the first member of the list that has this symbol
FirstIndex(symbol, enum) ==
    CHOOSE i \in 1..Len(enum) :
        /\ IsSymbolOf(symbol, enum[i])
        /\ \A j \in 1..(i - 1) : ~IsSymbolOf(symbol, enum[j])
\* the symbols are those of the members that are non-empty strings, each
\* once, in the order of their first members
AreSymbolsOf(symbols, enum) ==
    /\ \A i \in 1..Len(symbols) :
          \E j \in 1..Len(enum) : IsSymbolOf(symbols[i], enum[j])
    /\ \A j \in 1..Len(enum) :
          (IsStr(enum[j]) /\ enum[j].v # << >>) =>
              \E i \in 1..Len(symbols) : IsSymbolOf(symbols[i], enum[j])
    /\ \A i, j \in 1..Len(symbols) :
          i < j => /\ symbols[i] # symbols[j]
                   /\ FirstIndex(symbols[i], enum) < FirstIndex(symbols[j], enum)
\* the enum that the claim states for the field `color`
IsEnumOf(type, enum) ==
    /\ IsDict(type)
    /\ StrIs(GetOr(type, s_type, None), s_enum)
    /\ StrIs(GetOr(type, s_name, None), avro_name(s_color \o s_suffix_enum))
    /\ IsList(GetOr(type, s_symbols, None))
    /\ AreSymbolsOf(Get(type, s_symbols).v, enum)
HasEnumList == pc = "done" /\ args.op = "primitive" /\ IsList(args.enum)

\* C10: of a non-empty enum list json_schema_primitive_to_avro_type makes
\* the enum `<field>_enum` of the sanitized string members, each once in the
\* order of first occurrence, and `string` if no symbol is left
C10_EnumSymbolsAreFirstOccurrences ==
    (HasEnumList /\ Len(args.enum.v) > 0) =>
        /\ result.err = ""
        /\ IF \E j \in 1..Len(args.enum.v) :
                 IsStr(args.enum.v[j]) /\ args.enum.v[j].v # << >>
           THEN IsEnumOf(result.v, args.enum.v)
           ELSE result.v = S(s_string)
\* a list with a duplicate and a member to sanitize became two symbols
C10_DuplicateSymbolDropped ==
    /\ HasEnumList
    /\ args.enum = L(<< S(<<"A">>), S(<<"a", " ", "b">>), S(<<"A">>) >>)
    /\ result.err = ""
    /\ Get(result.v, s_symbols) = L(<< S(<<"A">>), S(<<"a", "_", "b">>) >>)


\* a call with the name of one type and without an enum
HasTypeName == pc = "done" /\ args.op = "primitive" /\ IsStr(args.json_primitive)
HasNoEnum == HasTypeName /\ IsNone(args.enum)
\* the Avro type of a format, as the claim lists them
DateType == D(<< <<s_type, S(s_int)>>, <<s_logicalType, S(s_date)>> >>)
TimeType == D(<< <<s_type, S(s_int)>>, <<s_logicalType, S(s_time_millis)>> >>)
DurationType ==
    D(<< <<s_type, S(s_fixed)>>, <<s_size, I(12)>>, <<s_logicalType, S(s_duration)>> >>)
UuidType == D(<< <<s_type, S(s_string)>>, <<s_logicalType, S(s_uuid)>> >>)
Gives(type) == result.err = "" /\ JEq(result.v, type)
\* C15: without format and enum the names string, integer, number, boolean
\* become string, int, float, boolean, and a format date-time, date, time,
\* duration or uuid gives its logical type in place of them
C15_PrimitiveAndFormatTable ==
    HasNoEnum =>
        /\ IsNone(args.format) =>
              /\ StrIs(args.json_primitive, s_string) => Gives(S(s_string))
              /\ StrIs(args.json_primitive, s_integer) => Gives(S(s_int))
              /\ StrIs(args.json_primitive, s_number) => Gives(S(s_float))
              /\ StrIs(args.json_primitive, s_boolean) => Gives(S(s_boolean))
        /\ StrIs(args.format, s_date_time) => Gives(DateType)
        /\ StrIs(args.format, s_date) => Gives(DateType)
        /\ StrIs(args.format, s_time) => Gives(TimeType)
        /\ StrIs(args.format, s_duration) => Gives(DurationType)
        /\ StrIs(args.format, s_uuid) => Gives(UuidType)
\* a number without format became float and an integer of format duration
\* the fixed type
C15_NumberBecameFloat ==
    /\ HasNoEnum
    /\ StrIs(args.json_primitive, s_number)
    /\ IsNone(args.format)
    /\ result.v = S(s_float)
C15_DurationReplacedInt ==
    /\ HasNoEnum
    /\ StrIs(args.json_primitive, s_integer)
    /\ StrIs(args.format, s_duration)
    /\ result.v = DurationType

\* C16: a name that is none of string, integer, number, boolean comes back
\* unchanged and is among the dependencies, with any format and any enum,
\* and the call does not fail
C16_UnknownNamePassesThrough ==
    (/\ HasTypeName
     /\ args.json_primitive.v \notin {s_string, s_integer, s_number, s_boolean}) =>
        /\ result.err = ""
        /\ result.v = args.json_primitive
        /\ \E i \in 1..Len(result.deps) : result.deps[i] = args.json_primitive


(***************************************************************************)
(* Properties of the module-level function, checked under SpecConvert      *)
(***************************************************************************)
\* C11: whatever is raised while the file is fetched, parsed, converted or
\* written, the handler of convert_jsons_to_avro catches it and the function
\* returns the empty list; nothing escapes to the caller
C11_EveryExceptionIsCaught ==
    [][pc = "raised" => (pc' = "caught" /\ result' = L(<< >>))]_vars
\* an exception of the conversion, raised after types had been registered,
\* was caught and the empty list returned
C11_FailedConversionReturnedEmpty ==
    /\ pc = "caught"
    /\ result = L(<< >>)
    /\ avro_schema # << >>

\* C12: a run that fails has not written the Avro schema file, and the file
\* is only written once the document was fetched and parsed and
\* jsons_to_avro has processed it and returned
C12_FileOnlyWrittenAfterConversion ==
    /\ pc \in {"raised", "caught", "escaped"} => IsNone(avro_file)
    /\ ~IsNone(avro_file) =>
          /\ pc = "written"
          /\ ~IsNone(doc)
          /\ queue = << >>
          /\ avro_file = JsonText(Unwrapped(avro_schema))
\* a conversion had returned its types and the run failed without a file
C12_FailedWriteLeftNoFile ==
    /\ pc = "caught"
    /\ ~args.writable
    /\ queue = << >>
    /\ avro_schema # << >>
    /\ IsNone(avro_file)


(***************************************************************************)
(* Properties of the reference resolver, checked under SpecCall            *)
(***************************************************************************)
\* the JSON pointers of the places of a value: the empty pointer for the
\* value, and `/key` or `/index` before the pointers of its members
RECURSIVE PointersInto(_)
PointersInto(x) ==
    {<< >>} \cup
    (IF IsDict(x)
     THEN UNION { { <<"/">> \o x.v[i][1] \o rest : rest \in PointersInto(x.v[i][2]) } :
                  i \in 1..Len(x.v) }
     ELSE IF IsList(x)
     THEN UNION { { <<"/">> \o StrOfNat(i - 1) \o rest : rest \in PointersInto(x.v[i]) } :
                  i \in 1..Len(x.v) }
     ELSE {})
\* does the pointer of the reference `#<pointer>` lead to a place of the document
Locatable(document, ref) == ref[1] = "#" /\ Tail(ref) \in PointersInto(document)
HasDanglingRef ==
    /\ pc = "done"
    /\ args.op \in {"resolve", "reference"}
    /\ ~Locatable(args.json_type, RefOf(args.json_type))
\* C13: a reference whose pointer leads nowhere in the document makes
\* resolve_reference raise the Exception of line 275, and the conversion of
\* the node that refers ends with that exception instead of a type
C13_DanglingPointerAborts ==
    HasDanglingRef =>
        IF args.op = "resolve" THEN result.err = "Exception"
        ELSE result.k = "x" /\ result.v = "Exception"
\* the conversion of a schema whose property refers to a definition that is
\* not there ended with the exception
C13_MissingDefinitionAborted ==
    /\ HasDanglingRef
    /\ args.op = "reference"
    /\ RefOf(args.json_type) = RefPool[2]
    /\ result.k = "x"


(***************************************************************************)
(* The shapes of the input, checked under Spec                             *)
(***************************************************************************)
\* C14: an input that is a bare list of schemas is accepted as the single
\* schema and the `definitions` map are: the call processes the schemas of
\* the list and does not raise
C14_BareListIsProcessed == IsList(input) => pc # "raised"

(***************************************************************************)
(* Properties of the record stack, checked under Spec                      *)
(***************************************************************************)
\* the records that are the type of a field or members of its union
InlineRecords(type) ==
    IF IsDict(type)
    THEN IF StrIs(GetOr(type, s_type, None), s_record) THEN << type >> ELSE << >>
    ELSE IF IsList(type)
    THEN SelectSeq(type.v, LAMBDA t : IsDict(t) /\ StrIs(GetOr(t, s_type, None), s_record))
    ELSE << >>
\* a record built for a property was built while the record of the property
\* was the top of the stack: its namespace ends with the name of that record
BuiltInside(inner, record) ==
    (Has(inner, s_namespace) /\ Has(inner, s_fields) /\ Has(record, s_namespace)) =>
        Get(inner, s_namespace).v
            = Get(record, s_namespace).v \o s_dot \o Get(record, s_name).v
NestedInOrder(record) ==
    \A i \in 1..Len(Get(record, s_fields).v) :
        \A j \in 1..Len(InlineRecords(Get(Get(record, s_fields).v[i], s_type))) :
            BuiltInside(InlineRecords(Get(Get(record, s_fields).v[i], s_type))[j],
                        record)
\* C20: record_stack is empty again after every process_definition that
\* returned and when jsons_to_avro returns, and a record built for a
\* property has the record of the property as the top of the stack
C20_RecordStackBalanced ==
    pc \in {"run", "returned"} =>
        /\ record_stack = << >>
        /\ \A i \in 1..Len(avro_schema) :
              (/\ IsDict(avro_schema[i])
               /\ IsStr(GetOr(avro_schema[i], s_name, None))
               /\ IsList(GetOr(avro_schema[i], s_fields, None))) =>
                  NestedInOrder(avro_schema[i])

\* a run returned with a record in the registry that has a record built
\* inside it, and with the stack empty
C20_NestedRecordBuiltAndPopped ==
    /\ pc = "returned"
    /\ record_stack = << >>
    /\ \E i \in 1..Len(avro_schema) :
          /\ IsDict(avro_schema[i])
          /\ IsList(GetOr(avro_schema[i], s_fields, None))
          /\ \E f \in 1..Len(Get(avro_schema[i], s_fields).v) :
                \E j \in 1..Len(InlineRecords(
                                  Get(Get(avro_schema[i], s_fields).v[f], s_type))) :
                    Has(InlineRecords(
                            Get(Get(avro_schema[i], s_fields).v[f], s_type))[j],
                        s_fields)


(***************************************************************************)
(* Properties of the cache of resolved references, checked under Spec      *)
(***************************************************************************)
\* the qualified name of an entry of the registry
FullNameOf(item) ==
    IF Has(item, s_namespace)
    THEN Get(item, s_namespace).v \o s_dot \o Get(item, s_name).v
    ELSE Get(item, s_name).v
\* is the name the qualified name of a record or an enum of the registry
IsEmittedName(reg, name) ==
    \E i \in 1..Len(reg) :
        /\ IsDict(reg[i])
        /\ IsStr(GetOr(reg[i], s_name, None))
        /\ IsStr(GetOr(reg[i], s_type, None))
        /\ Get(reg[i], s_type).v \in {s_record, s_enum}
        /\ FullNameOf(reg[i]) = name
\* C18: when the resolutions have completed, a name that imported_types
\* holds for a reference is the qualified name of a record or an enum that
\* was emitted; the name registered ahead for a fragment that became no
\* record and no enum is gone
C18_CachedNamesAreEmitted ==
    pc \in {"run", "returned"} =>
        \A i \in 1..Len(imported_types.v) :
            IsStr(imported_types.v[i][2]) =>
                IsEmittedName(avro_schema, imported_types.v[i][2].v)


\* the documents whose properties are a lone `$ref` to a schema that converts
\* to the type name `string`
PlainNameDocuments ==
    { WithIds(RefToStringDocument, << >>), WithIds(RefToAllOfStringDocument, << >>) }
\* the references of the properties of a document
RefsOfProperties(document) ==
    { Get(Get(document, s_properties).v[i][2], s_ref) :
        i \in 1..Len(Get(document, s_properties).v) }
\* C19: after a lone `$ref` resolved to a plain type name, the fields of the
\* properties have that name as their type and imported_types holds the
\* name for the reference
C19_PlainNameIsCached ==
    (pc = "returned" /\ input \in PlainNameDocuments) =>
        /\ \A i \in 1..Len(avro_schema) :
              IsRootRecord(avro_schema[i]) =>
                  \A f \in 1..Len(Get(avro_schema[i], s_fields).v) :
                      Get(Get(avro_schema[i], s_fields).v[f], s_type)
                          = L(<< S(s_null), S(s_string) >>)
        /\ \A ref \in RefsOfProperties(input) :
              /\ Has(imported_types, ref.v)
              /\ Get(imported_types, ref.v) = S(s_string)
\* the fields of such a document got the plain name as their type
C19_PlainNameIsFieldType ==
    (pc = "returned" /\ input \in PlainNameDocuments) =>
        \A i \in 1..Len(avro_schema) :
            IsRootRecord(avro_schema[i]) =>
                \A f \in 1..Len(Get(avro_schema[i], s_fields).v) :
                    Get(Get(avro_schema[i], s_fields).v[f], s_type)
                        = L(<< S(s_null), S(s_string) >>)


\* a fragment that stands on its own, as the claim lists the cases
StandsAlone(fragment) ==
    /\ IsDict(fragment)
    /\ \/ StrIs(GetOr(fragment, s_type, None), s_object)
       \/ Has(fragment, s_properties)
       \/ Has(fragment, s_enum)
       \/ Has(fragment, s_allOf)
       \/ Has(fragment, s_anyOf)
       \/ Has(fragment, s_oneOf) /\ Len(Get(fragment, s_oneOf).v) <= 1
\* the i-th entry of the history starts the conversion of a fragment that
\* stands on its own, for a lone reference
EntersStandalone(i) ==
    resolutions[i].at = "enter" /\ StandsAlone(resolutions[i].fragment)
\* the j-th entry resolves the reference of the i-th again
ResolvesAgain(i, j) ==
    /\ resolutions[j].ref = resolutions[i].ref
    /\ resolutions[j].at \in {"enter", "inline"}
\* the conversion that the i-th entry started has returned before the j-th
LeftBefore(i, j) ==
    \E k \in (i + 1)..(j - 1) :
        resolutions[k].ref = resolutions[i].ref /\ resolutions[k].at = "exit"
\* C17: while the fragment of a lone reference that stands on its own is
\* converted, the reference is in imported_types: an occurrence of the same
\* reference inside the fragment is answered by the cache, and the
\* reference is not resolved again before that conversion has returned
C17_NestedReferencesHitCache ==
    \A i \in 1..Len(resolutions) :
        EntersStandalone(i) =>
            \A j \in (i + 1)..Len(resolutions) :
                ResolvesAgain(i, j) => LeftBefore(i, j)
\* a reference that occurs inside its own fragment was answered by the cache
\* before the conversion of the fragment returned
C17_NestedOccurrenceHit ==
    \E i, h, k \in 1..Len(resolutions) :
        /\ i < h /\ h < k
        /\ EntersStandalone(i)
        /\ resolutions[h].at = "hit" /\ resolutions[h].ref = resolutions[i].ref
        /\ resolutions[k].at = "exit" /\ resolutions[k].ref = resolutions[i].ref
        /\ ~LeftBefore(i, h)


(***************************************************************************)
(* Properties of json_schema_object_to_avro_record, checked under SpecCall *)
(***************************************************************************)
\* the call of json_schema_object_to_avro_record has returned or raised
IsRecordCall == pc = "done" /\ args.op = "record"
\* what the object holds under a key, as the document of the call holds it
HeldUnder(key) == Get(InitialCtx.doc, key)
\* the value schema converted by itself, as the type of the field `field`
ValueType(schema, field) ==
    json_type_to_avro_type(InitialCtx, schema, S(s_R), S(field), S(Namespace),
                           << >>, 2).v
\* a field of this name whose type is a map of these values
IsMapFieldOver(field, name, values) ==
    /\ IsDict(field) /\ Has(field, s_name) /\ Has(field, s_type)
    /\ StrIs(Get(field, s_name), name)
    /\ IsDict(Get(field, s_type))
    /\ StrIs(GetOr(Get(field, s_type), s_type, None), s_map)
    /\ Has(Get(field, s_type), s_values)
    /\ JEq(Get(Get(field, s_type), s_values), values)
HasMapField(record, name, values) ==
    /\ IsDict(record) /\ Has(record, s_fields)
    /\ \E j \in 1..Len(FieldsOf(record)) :
          IsMapFieldOver(FieldsOf(record)[j], name, values)
HasPatterns == Has(args.json_type, s_patternProperties)
HasAdditionalObject ==
    IsDict(GetOr(args.json_type, s_additionalProperties, None))

\* C21, as stated: of an object with `patternProperties` every pattern key
\* becomes a field of the record, named as the key with `_` for every
\* character outside [A-Za-z0-9_] (`extensions` for an empty name), whose
\* type is a map of the converted value schema, whatever the object holds
\* under `properties` and `additionalProperties`
C21_PatternKeysBecomeMapFields ==
    (IsRecordCall /\ HasPatterns) =>
        \A i \in 1..Len(HeldUnder(s_patternProperties).v) :
            HasMapField(result,
                        PatternName(HeldUnder(s_patternProperties).v[i][1]),
                        ensure_type(ValueType(
                            HeldUnder(s_patternProperties).v[i][2],
                            PatternName(HeldUnder(s_patternProperties).v[i][1]))))
\* the same, of the objects that hold no object under `additionalProperties`
\* and either no `properties` or a value schema that is not empty
C21_PatternKeysBecomeMapFieldsAlone ==
    (/\ IsRecordCall /\ HasPatterns /\ ~HasAdditionalObject
     /\ result.k # "x") =>
        \A i \in 1..Len(HeldUnder(s_patternProperties).v) :
            HasMapField(result,
                        PatternName(HeldUnder(s_patternProperties).v[i][1]),
                        ensure_type(ValueType(
                            HeldUnder(s_patternProperties).v[i][2],
                            PatternName(HeldUnder(s_patternProperties).v[i][1]))))
\* an object with patterns and an object under `additionalProperties` has
\* become a record without a field of a pattern
C21_PatternsDroppedNextToAdditional ==
    /\ IsRecordCall /\ HasPatterns /\ HasAdditionalObject
    /\ IsDict(result) /\ Has(result, s_fields)
    /\ \A i \in 1..Len(HeldUnder(s_patternProperties).v) :
          \A j \in 1..Len(FieldsOf(result)) :
              ~StrIs(Get(FieldsOf(result)[j], s_name),
                     PatternName(HeldUnder(s_patternProperties).v[i][1]))

\* the fields of the record whose type is a map
MapFields(record) ==
    SelectSeq(FieldsOf(record),
              LAMBDA f : /\ IsDict(GetOr(f, s_type, None))
                         /\ StrIs(GetOr(Get(f, s_type), s_type, None), s_map))
\* how many properties the object declares
PropertyCount ==
    IF Has(args.json_type, s_properties)
    THEN Len(Get(args.json_type, s_properties).v) ELSE 0
\* the value type of the extra field: the converted schema, the generic
\* type for an empty one
AdditionalValues ==
    IF is_empty_type(ValueType(HeldUnder(s_additionalProperties),
                               s_R \o s_suffix_extensions))
    THEN generic_type
    ELSE ValueType(HeldUnder(s_additionalProperties), s_R \o s_suffix_extensions)
\* the record of the object without its `additionalProperties`
RecordWithoutAdditional ==
    json_schema_object_to_avro_record(
        [InitialCtx EXCEPT
            !.doc = WithIds(Del(args.json_type, s_additionalProperties), << >>)],
        S(s_R), WithIds(Del(args.json_type, s_additionalProperties), << >>),
        S(Namespace), 1).v

\* C22: an object whose `additionalProperties` is an object becomes a record
\* with the fields of its properties and exactly one more field, whose type
\* is a map of the converted `additionalProperties` schema, or of the
\* generic type when that schema converts to an empty type; with a boolean
\* under `additionalProperties` the record is the record of the object
\* without the key
C22_AdditionalPropertiesBecomeOneMapField ==
    /\ (IsRecordCall /\ HasAdditionalObject) =>
          /\ IsDict(result) /\ Has(result, s_fields)
          /\ Len(FieldsOf(result)) = PropertyCount + 1
          /\ Len(MapFields(result)) = 1
          /\ JEq(Get(Get(MapFields(result)[1], s_type), s_values), AdditionalValues)
    /\ (/\ IsRecordCall /\ Has(args.json_type, s_additionalProperties)
        /\ GetOr(args.json_type, s_additionalProperties, None).k = "b") =>
          JEq(result, RecordWithoutAdditional)
\* an object with a property and an empty schema under
\* `additionalProperties` has become a record with a map of the generic type
C22_EmptyAdditionalBecameGenericMap ==
    /\ IsRecordCall /\ HasAdditionalObject
    /\ ~Truthy(Get(args.json_type, s_additionalProperties))
    /\ PropertyCount = 1
    /\ HasMapField(result, s_R, generic_type)

\* the object of the call carries `allOf`, `oneOf` or `anyOf`
IsComposed ==
    \/ Has(args.json_type, s_allOf) \/ Has(args.json_type, s_oneOf)
    \/ Has(args.json_type, s_anyOf)
IsRecord(type) == IsDict(type) /\ StrIs(GetOr(type, s_type, None), s_record)
\* the merged or alternation result: the object converted as a type
ComposedType ==
    json_type_to_avro_type(InitialCtx, InitialCtx.doc, S(s_R), S(s_value),
                           S(Namespace), << >>, 2).v

\* C23, as stated: of an object with `allOf`, `oneOf` or `anyOf`
\* json_schema_object_to_avro_record returns a record, which is the merged
\* or alternation result when that is a record and has the single field
\* `value` otherwise, and never anything that is not a record or a dict
\* without a type
C23_CompositionYieldsRecord ==
    (IsRecordCall /\ IsComposed /\ result.k # "x") =>
        /\ IsRecord(result)
        /\ ~IsRecord(ComposedType) =>
              /\ Len(FieldsOf(result)) = 1
              /\ StrIs(Get(FieldsOf(result)[1], s_name), s_value)
\* an object with `allOf` has come back as a dict without a type
C23_UntypedDictReturned ==
    /\ IsRecordCall /\ Has(args.json_type, s_allOf) /\ IsDict(result)
    /\ ~Has(result, s_type)


(***************************************************************************)
(* Properties of whole conversions, checked under Spec                     *)
(***************************************************************************)
\* the run of jsons_to_avro is over
IsOver == pc \in {"returned", "raised"}
ConditionalKeys == {s_if, s_then, s_else, s_dependentSchemas, s_dependentRequired}
\* does a node of x hold one of the five keys
RECURSIVE HasConditionals(_)
HasConditionals(x) ==
    CASE x.k = "d" ->
            \E i \in 1..Len(x.v) :
                x.v[i][1] \in ConditionalKeys \/ HasConditionals(x.v[i][2])
      [] x.k = "l" -> \E i \in 1..Len(x.v) : HasConditionals(x.v[i])
      [] OTHER -> FALSE
\* x with the five keys removed of every node
RECURSIVE WithoutConditionals(_)
WithoutConditionals(x) ==
    CASE x.k = "d" ->
            D([i \in 1..Len(StripConditionals(x).v) |->
                  <<StripConditionals(x).v[i][1],
                    WithoutConditionals(StripConditionals(x).v[i][2])>>])
      [] x.k = "l" -> L([i \in 1..Len(x.v) |-> WithoutConditionals(x.v[i])])
      [] OTHER -> x
\* what jsons_to_avro returns for the input without the five keys
ConvertedWithoutConditionals ==
    jsons_to_avro(WithIds(WithoutConditionals(input), << >>), root_namespace,
                  EmptyDict).v

\* C24, as stated: a document with nodes that hold `if`, `then`, `else`,
\* `dependentSchemas` or `dependentRequired` is converted as the document
\* without these keys is, and the keys never make the run raise
C24_ConditionalKeysAreIgnored ==
    (IsOver /\ HasConditionals(input)) =>
        /\ result.k # "x"
        /\ JEq(result, ConvertedWithoutConditionals)
\* the same, for the keys of the nodes that json_type_to_avro_type converts
C24_ConditionalKeysOfTypesAreIgnored ==
    (IsOver /\ input = WithIds(ConditionalDocument, << >>)) =>
        /\ result.k # "x"
        /\ JEq(result, ConvertedWithoutConditionals)
\* a definition that holds `if` next to its `$ref` made the run raise
C24_ConditionalDefinitionRaised ==
    /\ pc = "raised" /\ input = WithIds(ConditionalDefinitionDocument, << >>)
    /\ ConvertedWithoutConditionals.k # "x"


(***************************************************************************)
(* One converter, several calls of jsons_to_avro: the registry and the     *)
(* record stack are locals of the call (lines 735-736), imported_types is  *)
(* an attribute of the converter (line 17) and stays as the call before    *)
(* left it.                                                                *)
(***************************************************************************)
MaxCalls == 2
\* how many calls the converter has seen
Calls == IF IsNone(args) THEN 1 ELSE args.v
\* lines 733-736: the converter is handed the document once more
Again ==
    /\ pc \in {"returned", "raised"}
    /\ Calls < MaxCalls
    /\ args' = I(Calls + 1)
    /\ doc' = input
    /\ avro_schema' = << >>
    /\ record_stack' = << >>
    /\ queue' = << >>
    /\ pc' = "start"
    /\ result' = None
    /\ emitted' = << >>
    /\ resolutions' = << >>
    /\ UNCHANGED <<input, root_namespace, imported_types, hashseed, content,
                   avro_file>>
NextAgain ==
    \/ Start
    \/ ProcessDefinition
    \/ ProcessDefinitionList
    \/ Return
    \/ Again
SpecAgain == Init /\ [][NextAgain]_vars

\* C25, as stated: every call of jsons_to_avro starts with an empty registry,
\* an empty cache of imported types and an empty record stack, also the
\* second call of one converter
C25_EveryCallStartsEmpty ==
    pc = "start" =>
        /\ avro_schema = << >>
        /\ record_stack = << >>
        /\ imported_types = EmptyDict
\* the registry and the record stack are empty when a call starts
C25_EveryCallStartsWithEmptyLocals ==
    pc = "start" => (avro_schema = << >> /\ record_stack = << >>)
\* the second call has started with an imported type of the first
C25_SecondCallSawImportedTypes ==
    pc = "start" /\ Calls = 2 /\ imported_types # EmptyDict


\* the names of the Avro primitive types
AvroPrimitives ==
    {s_null, s_boolean, s_int, s_long, s_float, s_double, s_bytes, s_string}
\* is the name the qualified name of an entry of the registry
IsEntryName(reg, name) ==
    \E i \in 1..Len(reg) :
        /\ IsDict(reg[i]) /\ IsStr(GetOr(reg[i], s_name, None))
        /\ FullNameOf(reg[i]) = name
\* the type names that a field type uses by itself or as a member of a union
NamesOfType(type) ==
    CASE IsStr(type) -> IF type.v \in AvroPrimitives THEN {} ELSE {type.v}
      [] IsList(type) ->
            { type.v[i].v : i \in { j \in 1..Len(type.v) :
                                       /\ IsStr(type.v[j])
                                       /\ type.v[j].v \notin AvroPrimitives } }
      [] OTHER -> {}
\* the dependencies of an entry
DependenciesOf(item) ==
    IF IsDict(item) /\ IsList(GetOr(item, s_dependencies, None))
    THEN { Get(item, s_dependencies).v[i].v : i \in 1..Len(Get(item, s_dependencies).v) }
    ELSE {}
\* the type names of the fields of an entry
FieldTypeNamesOf(item) ==
    IF IsDict(item) /\ IsList(GetOr(item, s_fields, None))
    THEN UNION { NamesOfType(GetOr(FieldsOf(item)[i], s_type, None)) :
                   i \in 1..Len(FieldsOf(item)) }
    ELSE {}

\* C26, as stated: when the run has returned, every dependency of an entry
\* of the registry and every type name that a field of an entry has as its
\* type is the qualified name of an entry of the registry
C26_NamesReferToEntries ==
    pc = "returned" =>
        \A i \in 1..Len(avro_schema) :
            \A name \in DependenciesOf(avro_schema[i])
                        \cup FieldTypeNamesOf(avro_schema[i]) :
                IsEntryName(avro_schema, name)
\* a returned registry holds an entry with a dependency that no entry has
\* as its name
C26_DanglingDependencyReturned ==
    /\ pc = "returned"
    /\ \E i \in 1..Len(avro_schema) :
          \E name \in DependenciesOf(avro_schema[i]) :
              ~IsEntryName(avro_schema, name)


\* C27, as stated: the fields of every record of the registry have names
\* that differ from each other
C27_FieldNamesDistinct ==
    \A i \in 1..Len(avro_schema) :
        (IsDict(avro_schema[i]) /\ IsList(GetOr(avro_schema[i], s_fields, None))) =>
            NamesDiffer(FieldsOf(avro_schema[i]))
\* the record of the two patterns `a-b` and `a_b` is in the registry with
\* two fields `a_b`
C27_PatternFieldsCollided ==
    /\ input = WithIds(CollidingPatternsDocument, << >>)
    /\ pc = "returned"
    /\ \E i \in 1..Len(avro_schema) :
          /\ Len(FieldsOf(avro_schema[i])) = 2
          /\ ~NamesDiffer(FieldsOf(avro_schema[i]))


\* the documents with a `$ref` whose target does not stand alone: an empty
\* schema, the document itself through an empty pointer, and a definition
\* that is nothing but a `$ref` to a definition that refers back
UnresolvableTargetDocuments ==
    { WithIds(RefToEmptyDocument, << >>), WithIds(SelfRefRootDocument, << >>),
      WithIds(RefChainDocument, << >>) }
\* C28, as stated: the conversion of a `$ref` to an empty schema, with an
\* empty pointer, or into a chain of nodes that are a `$ref` only comes to an
\* end after a finite number of calls of json_type_to_avro_type; the run
\* does not end because the calls are nested too deep
C28_UnresolvableReferenceTerminates ==
    input \in UnresolvableTargetDocuments =>
        ~(pc = "raised" /\ result = Exc("RecursionError"))
\* the run over the chain of definitions has ended in RecursionError
C28_ChainRecursedWithoutEnd ==
    /\ input = WithIds(RefChainDocument, << >>)
    /\ pc = "raised" /\ result = Exc("RecursionError")


\* does the document hold the key `$ref` at any depth
RECURSIVE HoldsRef(_)
HoldsRef(x) ==
    IF IsDict(x)
    THEN Has(x, s_ref) \/ \E i \in 1..Len(x.v) : HoldsRef(x.v[i][2])
    ELSE IF IsList(x) THEN \E i \in 1..Len(x.v) : HoldsRef(x.v[i])
    ELSE FALSE
\* the record that lines 586-596 return for a record that is being built:
\* nothing but one field whose type is the field's own name
IsRefWrapper(x) ==
    /\ IsDict(x) /\ Len(x.v) = 4
    /\ StrIs(GetOr(x, s_type, None), s_record)
    /\ Has(x, s_name) /\ Has(x, s_namespace)
    /\ IsList(GetOr(x, s_fields, None))
    /\ Len(Get(x, s_fields).v) = 1
    /\ IsDict(Get(x, s_fields).v[1])
    /\ Len(Get(x, s_fields).v[1].v) = 2
    /\ IsStr(GetOr(Get(x, s_fields).v[1], s_name, None))
    /\ JEq(GetOr(Get(x, s_fields).v[1], s_type, None),
           Get(Get(x, s_fields).v[1], s_name))
\* is there such a record in the type at any depth
RECURSIVE HoldsRefWrapper(_)
HoldsRefWrapper(x) ==
    IF IsDict(x)
    THEN IsRefWrapper(x) \/ \E i \in 1..Len(x.v) : HoldsRefWrapper(x.v[i][2])
    ELSE IF IsList(x) THEN \E i \in 1..Len(x.v) : HoldsRefWrapper(x.v[i])
    ELSE FALSE
\* C29, as stated: for a document that holds no `$ref` no call of
\* json_schema_object_to_avro_record returns the wrapper of a record that
\* is being built, so no type of the registry holds one, also when a nested
\* object property is named like a record around it
C29_NoWrapperWithoutReference ==
    ~HoldsRef(input) =>
        \A i \in 1..Len(avro_schema) : ~HoldsRefWrapper(avro_schema[i])
\* the document without `$ref` whose nested property is named like the
\* record around it has returned a registry that holds a wrapper
C29_NestedNameBecameWrapper ==
    /\ input = WithIds(NestedSameNameDocument, << >>)
    /\ pc = "returned"
    /\ \E i \in 1..Len(avro_schema) : HoldsRefWrapper(avro_schema[i])


\* C30, as stated: jsons_to_avro leaves the document it is given as it was:
\* when the call is over every node of the document has the keys and values
\* it had before (no key removed, no `type` added, no `$ref` replaced)
C30_DocumentUnchanged ==
    IsOver => JEq(doc, input)
\* the call over the document with conditional keys has returned, and the
\* document has lost a key and gained a `type` since
C30_DocumentLostAndGainedKeys ==
    /\ input = WithIds(ConditionalDocument, << >>)
    /\ pc = "returned"
    /\ Has(Get(Get(input, s_properties), <<"a">>), s_if)
    /\ ~Has(Get(Get(input, s_properties), <<"p">>), s_type)
    /\ ~Has(Get(Get(doc, s_properties), <<"a">>), s_if)
    /\ Has(Get(Get(doc, s_properties), <<"p">>), s_type)

=============================================================================
